---- MODULE Spec2Model ----
(***************************************************************************)
(* Code-indexing core of Roo-Code: CodeIndexStateManager,                  *)
(* CodeIndexOrchestrator (the variant with a cancellation token source)    *)
(* and DirectoryScanner.                                                   *)
(*                                                                         *)
(*   Spec      the orchestrator: startIndexing / requestStop / stopWatcher *)
(*             / forceStopAndClear / clearIndexData calls interleaved at   *)
(*             their awaits, the file watcher's events, and the scanner    *)
(*             seen through the callbacks it invokes.                      *)
(*   SpecScan  the scanner: successive scanDirectory calls over a small    *)
(*             workspace, with every vector-store and embedder call able   *)
(*             to fail.                                                    *)
(***************************************************************************)
EXTENDS Integers, Sequences, FiniteSets, TLC

(* ------------------------------ bounds -------------------------------- *)

\* files of the workspace seen by the orchestrator's scan
NumFiles == 2

\* coroutine slots for startIndexing calls that may be in flight together
MaxRuns == 2

\* largest totalInBatch the file watcher reports
MaxWatchBatch == 1

\* calls and events the orchestrator receives from outside in one behaviour
MaxCalls == 3

\* distinct contents a file of the scanned workspace can have
NumContents == 3

\* most blocks one file parses into
MaxBlocks == 2

\* scanDirectory calls in one behaviour
MaxScans == 3

\* blocks per batch (imported from ../constants; scaled to the workspace above)
BATCH_SEGMENT_THRESHOLD == 2

\* attempts per batch (imported from ../constants; scaled)
MAX_BATCH_RETRIES == 2

\* largest item count reported to the state manager directly
MaxItems == 2

\* largest number of API keys
MaxKeys == 2

\* createEmbeddings calls that can be in flight together
MaxConcurrent == 2

\* createEmbeddings calls in one behaviour
MaxEmbeds == 2

MAX_RETRIES == 3

INITIAL_RETRY_DELAY == 500

(* --------------------------- status messages -------------------------- *)

\* A status message: a format, its numeric arguments and its text argument.
Msg(f, n, t) == [fmt |-> f, nums |-> n, text |-> t]

Plain(s) == Msg(s, <<>>, "")

\* the optional parameter `message` left out
Undefined == Msg("<undefined>", <<>>, "")

FileName(f) == IF f = 1 THEN "a.ts" ELSE IF f = 2 THEN "b.ts" ELSE "c.ts"

(* ------------------------ CodeIndexStateManager ----------------------- *)

InitialStatus ==
    [systemStatus |-> "Standby", message |-> Plain(""),
     processedItems |-> 0, totalItems |-> 0, currentItemUnit |-> "blocks",
     currentApiKey |-> 0, totalApiKeys |-> 0]

\* A state manager in the middle of a handler: its fields and the number of
\* progress events the handler has fired so far.
Begin(st) == [st |-> st, ev |-> 0]

\* the state manager leaving the message empty when none is supplied
C16_NoDefault(newState) == Plain("")

DefaultMessage(newState) ==
    CASE newState = "Standby" -> Plain("Ready.")
      [] newState = "Indexed" -> Plain("Index up-to-date.")
      [] newState = "Error" -> Plain("An error occurred.")

\* setSystemState comparing nothing before it assigns and fires
C15_AlwaysFire(sm, newState, message) ==
    [st |-> [sm.st EXCEPT !.systemStatus = newState,
                          !.message = IF message # Undefined THEN message ELSE @],
     ev |-> sm.ev + 1]

setSystemState(sm, newState, message) ==
    LET s == sm.st
        stateChanged ==
            \/ newState # s.systemStatus
            \/ (message # Undefined /\ message # s.message)
        msg1 == IF message # Undefined THEN message ELSE s.message
        msg2 == IF newState # "Indexing" /\ message = Undefined
                THEN DefaultMessage(newState) ELSE msg1
        s2 == IF newState # "Indexing"
              THEN [systemStatus |-> newState, message |-> msg2,
                    processedItems |-> 0, totalItems |-> 0,
                    currentItemUnit |-> "blocks",
                    currentApiKey |-> 0, totalApiKeys |-> 0]
              ELSE [s EXCEPT !.systemStatus = newState, !.message = msg1]
    IN  IF stateChanged THEN [st |-> s2, ev |-> sm.ev + 1] ELSE sm

reportBlockIndexingProgress(sm, processedItems, totalItems) ==
    LET s == sm.st
        progressChanged ==
            processedItems # s.processedItems \/ totalItems # s.totalItems
        newMessage ==
            Msg(IF totalItems = 1 THEN "Indexed %d / %d block found"
                ELSE "Indexed %d / %d blocks found",
                <<processedItems, totalItems>>, "")
        shouldUpdate ==
            progressChanged \/ s.systemStatus # "Indexing" \/ newMessage # s.message
    IN  IF shouldUpdate
        THEN [st |-> [s EXCEPT !.processedItems = processedItems,
                               !.totalItems = totalItems,
                               !.currentItemUnit = "blocks",
                               !.systemStatus = "Indexing",
                               !.message = newMessage],
              ev |-> sm.ev + 1]
        ELSE sm

reportFileQueueProgress(sm, processedFiles, totalFiles, currentFileBasename) ==
    LET s == sm.st
        progressChanged ==
            processedFiles # s.processedItems \/ totalFiles # s.totalItems
        name == IF currentFileBasename = "" THEN "..." ELSE currentFileBasename
        newMessage ==
            IF totalFiles > 0 /\ processedFiles = 0
            THEN Msg(IF totalFiles = 1 THEN "Found %d file to process."
                     ELSE "Found %d files to process.", <<totalFiles>>, "")
            ELSE IF totalFiles > 0 /\ processedFiles < totalFiles
            THEN Msg(IF totalFiles = 1 THEN "Processing %d / %d file. Current: %s"
                     ELSE "Processing %d / %d files. Current: %s",
                     <<processedFiles, totalFiles>>, name)
            ELSE s.message
        shouldUpdate ==
            progressChanged \/ s.systemStatus # "Indexing" \/ newMessage # s.message
    IN  IF shouldUpdate
        THEN [st |-> [s EXCEPT !.processedItems = processedFiles,
                               !.totalItems = totalFiles,
                               !.currentItemUnit = "files",
                               !.systemStatus = "Indexing",
                               !.message = newMessage],
              ev |-> sm.ev + 1]
        ELSE sm

\* reportApiKeyUsage assigning and firing without comparing first
C36_AlwaysReport(sm, current, total) ==
    [st |-> [sm.st EXCEPT !.currentApiKey = current, !.totalApiKeys = total],
     ev |-> sm.ev + 1]

reportApiKeyUsage(sm, current, total) ==
    LET s == sm.st
    IN  IF s.currentApiKey # current \/ s.totalApiKeys # total
        THEN [st |-> [s EXCEPT !.currentApiKey = current, !.totalApiKeys = total],
              ev |-> sm.ev + 1]
        ELSE sm

(* ------------------------ CodeIndexOrchestrator ----------------------- *)

Files == 1..NumFiles

Runs == 1..MaxRuns

VARIABLES
    status,               \* the state manager's fields
    lastOp,               \* the call that returned in the last step, and its result
    isFeatureConfigured,  \* configManager.isFeatureConfigured
    isProcessing,         \* _isProcessing
    batchHasError,        \* _batchHasError
    cts,                  \* _cancellationTokenSource: 0 (null) or the run that made it
    subs,                 \* _fileWatcherSubscriptions holds live subscriptions
    leaked,               \* live subscriptions the field no longer holds
    watcher,              \* the file watcher: "idle", "active" or "disposed"
    points,               \* vector collection: files that have points
    hashes,               \* hash cache: files that have an entry
    run,                  \* the startIndexing calls in flight
    clr,                  \* the forceStopAndClear / clearIndexData call in flight
    ncalls                \* calls and events received so far

\* the orchestrator's own state, beside its state manager
orchRest ==
    <<lastOp, isFeatureConfigured, isProcessing, batchHasError,
      cts, subs, leaked, watcher, points, hashes, run, clr, ncalls>>

orchVars == <<status, orchRest>>

\* The scanner, its cache manager and its vector store, on their own.
VARIABLES
    disk,      \* the workspace: each file's content, 0 when the file does not exist
    cache,     \* cacheManager: each path's hash, 0 when the path has no entry
    store,     \* the vector store: the points it holds
    scan,      \* the scanDirectory call in flight: where it waits, and its locals
    batches,   \* the processBatch calls of that scan
    lastScan,  \* the statistics of the scanDirectory call that returned in the last step
    nscans     \* scanDirectory calls made so far

scanVars == <<disk, cache, store, scan, batches, lastScan, nscans>>

\* The state manager called directly.
VARIABLES
    smLast     \* the last call made on the state manager: its arguments, the
               \* fields before it, the events it fired and the last payload fired

smVars == <<smLast>>

\* The Gemini embedder.
VARIABLES
    apiKeys,   \* apiKeys.length
    keyIndex,  \* keyIndex
    emb,       \* the createEmbeddings calls: where each waits, and its locals
    keyUsage,  \* the payload of the last onKeyUsage event
    nembed     \* createEmbeddings calls made so far

embVars == <<apiKeys, keyIndex, emb, keyUsage, nembed>>

\* A startIndexing call in flight: where it waits (pc), its locals, its
\* cancellation token ("no": not cancelled; "scan": cancelled by requestStop()
\* before its scan returned; "other": cancelled otherwise), the scanner's
\* accumulators (todo, batch; blocksFound is allBlocksToProcess.length), and
\* what its catch block has done (cause, teardown). from is the status the
\* call was accepted in; n0 is the number of calls and events received when
\* it was accepted, 0 when another call was in flight then; collectionCreated
\* is kept until the parse tasks have settled; changed tells that some parse
\* task did not skip its file as unchanged.
IdleRun ==
    [pc |-> "idle", processedFiles |-> 0, cumulativeBlocksIndexed |-> 0,
     totalBlocksFound |-> 0, batchErrors |-> <<>>, todo |-> {}, batch |-> {},
     blocksFound |-> 0, token |-> "no", cause |-> "", teardown |-> {},
     from |-> "", n0 |-> 0, collectionCreated |-> FALSE, changed |-> FALSE]

\* The forceStopAndClear / clearIndexData call in flight; cleared records
\* that a clearIndexData call has returned and no startIndexing call was
\* accepted since.
IdleClr == [pc |-> "idle", viaClearIndexData |-> FALSE, clearFailed |-> FALSE,
            cleared |-> FALSE]

\* What a returned call did: for startIndexing its outcome and its run's
\* locals; for a rejected startIndexing the events it fired and the
\* collaborators it called; for clearIndexData whether clearCollection failed.
NoRet ==
    [call |-> "none", outcome |-> "", processedFiles |-> 0,
     blocksFound |-> 0, blocksIndexed |-> 0, token |-> "no", cause |-> "",
     teardown |-> {}, fired |-> 0, calls |-> {}, clearFailed |-> FALSE,
     from |-> "", alone |-> FALSE, queueSize |-> 0, changed |-> FALSE]

\* The orchestrator's fields while a handler runs: the handler's synchronous
\* calls are applied to this record one after the other, and Commit writes it.
Cur ==
    [sm |-> Begin(status), isProcessing |-> isProcessing, batchHasError |-> batchHasError,
     cts |-> cts, cancel |-> 0, subs |-> subs, leaked |-> leaked,
     watcher |-> watcher, calls |-> {}]

Write(o) ==
    /\ status' = o.sm.st
    /\ isProcessing' = o.isProcessing
    /\ batchHasError' = o.batchHasError
    /\ cts' = o.cts
    /\ subs' = o.subs
    /\ leaked' = o.leaked
    /\ watcher' = o.watcher
    /\ UNCHANGED <<scanVars, smVars, embVars>>

\* a step of a call in flight: an awaited promise settled
Commit(o) == Write(o) /\ UNCHANGED ncalls

\* a step made from outside: a public call, a watcher event, a settings change
Receive(o) == ncalls < MaxCalls /\ ncalls' = ncalls + 1 /\ Write(o)

State(o, newState, message) == [o EXCEPT !.sm = setSystemState(o.sm, newState, message)]

Calling(o, who) == [o EXCEPT !.calls = @ \cup {who}]

requestStop(o) ==
    IF o.isProcessing /\ o.cts # 0
    THEN [State(o, "Indexing", Plain("Stopping...")) EXCEPT !.cancel = o.cts]
    ELSE o

stopWatcher(o) ==
    LET o1 == [Calling(o, "watcher") EXCEPT !.watcher = "disposed", !.subs = FALSE]
        o2 == IF o1.sm.st.systemStatus \notin {"Error", "Indexing"}
              THEN State(o1, "Standby", Plain("File watcher stopped."))
              ELSE o1
    IN  [o2 EXCEPT !.isProcessing = FALSE]

\* forceStopAndClear as it would be without its stopWatcher() call
C7_NoStopWatcher(o, configured) ==
    LET o1 == requestStop(o)
    IN  IF configured
        THEN [o |-> Calling(o1, "vectorStore"), pc |-> "clearCollection",
              teardown |-> {"clearCollection"}]
        ELSE [o |-> Calling(o1, "cache"), pc |-> "clearCacheFile", teardown |-> {}]

\* forceStopAndClear up to its first await: the record, where it waits, and
\* the teardown calls it has made.
forceStopAndClearBegin(o, configured) ==
    LET o1 == stopWatcher(requestStop(o))
    IN  IF configured
        THEN [o |-> Calling(o1, "vectorStore"), pc |-> "clearCollection",
              teardown |-> {"stopWatcher", "clearCollection"}]
        ELSE [o |-> Calling(o1, "cache"), pc |-> "clearCacheFile",
              teardown |-> {"stopWatcher"}]

\* the finally block of startIndexing
finally(o) == [o EXCEPT !.isProcessing = FALSE, !.cts = 0]

OrchInit ==
    /\ status = InitialStatus
    /\ lastOp = NoRet
    /\ isFeatureConfigured \in BOOLEAN
    /\ isProcessing = FALSE
    /\ batchHasError = FALSE
    /\ cts = 0
    /\ subs = FALSE
    /\ leaked = FALSE
    /\ watcher = "idle"
    /\ points = {}
    /\ hashes = {}
    /\ run = [r \in Runs |-> IdleRun]
    /\ clr = IdleClr
    /\ ncalls = 0

(* startIndexing, in the steps between its awaits *)

ScanPcs == {"listFiles", "parse", "batches"}

\* The runs after handler o: requestStop() in it cancelled the token of run
\* o.cancel; `direct` when it was the public requestStop() call itself.
Tokens(rn, o, direct) ==
    IF o.cancel = 0 THEN rn
    ELSE [rn EXCEPT ![o.cancel].token =
              IF direct /\ rn[o.cancel].pc \in ScanPcs THEN "scan"
              ELSE IF @ = "no" THEN "other" ELSE @]

RetStart(rec, outcome) ==
    [NoRet EXCEPT !.call = "startIndexing", !.outcome = outcome,
                  !.processedFiles = rec.processedFiles,
                  !.blocksFound = rec.blocksFound,
                  !.blocksIndexed = rec.cumulativeBlocksIndexed,
                  !.token = rec.token,
                  !.cause = rec.cause,
                  !.teardown = rec.teardown,
                  !.from = rec.from,
                  !.changed = rec.changed,
                  !.alone = (rec.n0 = ncalls)]

\* The catch block up to its first await, entered with the error `cause`.
Catch(o, r, rec, cause) ==
    LET b == forceStopAndClearBegin(o, isFeatureConfigured)
    IN  /\ Commit(b.o)
        /\ run' = Tokens([run EXCEPT ![r] = [rec EXCEPT !.cause = cause,
                            !.collectionCreated = FALSE,
                            !.teardown = b.teardown \cup
                                (IF isFeatureConfigured THEN {"configured"} ELSE {}),
                            !.pc = IF b.pc = "clearCollection" THEN "catchClearCollection"
                                   ELSE "catchClearCacheFile"]], b.o, FALSE)

\* scanDirectory is called: it runs up to its first await, listFiles.
CallScan(o, r, rn) ==
    /\ Commit(Calling(State(o, "Indexing", Plain("Services ready. Starting workspace scan...")),
                      "scanner"))
    /\ run' = [rn EXCEPT ![r].pc = "listFiles"]

FreeSlot(r) ==
    /\ run[r].pc = "idle"
    /\ \A q \in Runs : q < r => run[q].pc # "idle"

Rejected(o, outcome) ==
    [NoRet EXCEPT !.call = "startIndexing", !.outcome = outcome,
                  !.fired = o.sm.ev, !.calls = o.calls]

\* the guards of startIndexing
NotConfigured == ~isFeatureConfigured

\* startIndexing refusing a start while the status is Error
C14_ErrorNotRestartable ==
    \/ isProcessing
    \/ status.systemStatus \notin {"Standby", "Indexed"}

Busy ==
    \/ isProcessing
    \/ status.systemStatus \notin {"Standby", "Error", "Indexed"}

\* what startIndexing does before it returns on its first guard
rejectNotConfigured(o) ==
    State(o, "Standby", Plain("Missing configuration. Save your settings to start indexing."))

\* the second guard as it would be without its return: the call goes on as accepted
C6_FallThrough(o) ==
    Calling(State([o EXCEPT !.isProcessing = TRUE], "Indexing",
                  Plain("Initializing services...")), "vectorStore")

\* what startIndexing does before it returns on its second guard: a warning
rejectBusy(o) == o

startIndexing ==
    \/ /\ NotConfigured
       /\ LET o == rejectNotConfigured(Cur)
          IN  Receive(o) /\ lastOp' = Rejected(o, "notConfigured")
       /\ UNCHANGED <<isFeatureConfigured, points, hashes, run, clr>>
    \/ /\ ~NotConfigured
       /\ Busy
       /\ LET o == rejectBusy(Cur)
          IN  Receive(o) /\ lastOp' = Rejected(o, "busy")
       /\ UNCHANGED <<isFeatureConfigured, points, hashes, run, clr>>
    \/ \E r \in Runs :
       /\ FreeSlot(r)
       /\ ~NotConfigured
       /\ ~Busy
       /\ LET o1 == [Cur EXCEPT !.isProcessing = TRUE, !.cts = r]
              o2 == State(o1, "Indexing", Plain("Initializing services..."))
          IN  Receive(Calling(o2, "vectorStore"))
       /\ run' = [run EXCEPT ![r] =
                    [IdleRun EXCEPT !.pc = "initialize",
                                    !.from = status.systemStatus,
                                    !.n0 = IF clr.pc = "idle" /\ \A q \in Runs : run[q].pc = "idle"
                                           THEN ncalls + 1 ELSE 0]]
       /\ clr' = [clr EXCEPT !.cleared = FALSE]
       /\ lastOp' = NoRet
       /\ UNCHANGED <<isFeatureConfigured, points, hashes>>

\* startIndexing leaving the cache as it is after a new collection
C23_KeepCache(collectionCreated) == FALSE

\* whether startIndexing clears the cache file after vectorStore.initialize()
clearsCache(collectionCreated) == collectionCreated

\* vectorStore.initialize() settles
InitializeDone(r) ==
    /\ run[r].pc = "initialize"
    /\ lastOp' = NoRet
    /\ UNCHANGED <<isFeatureConfigured, hashes, clr>>
    /\ \/ \* a new collection was created
          /\ points' = {}
          /\ IF clearsCache(TRUE)
             THEN /\ Commit(Calling(Cur, "cache"))
                  /\ run' = [run EXCEPT ![r].pc = "clearCacheFile",
                                        ![r].collectionCreated = TRUE]
             ELSE CallScan(Cur, r, [run EXCEPT ![r].collectionCreated = TRUE])
       \/ /\ IF clearsCache(FALSE)
             THEN /\ Commit(Calling(Cur, "cache"))
                  /\ run' = [run EXCEPT ![r].pc = "clearCacheFile"]
             ELSE CallScan(Cur, r, run)
          /\ UNCHANGED points
       \/ /\ Catch(Cur, r, run[r], "vectorStore.initialize failed")
          /\ UNCHANGED points

\* cacheManager.clearCacheFile() after a new collection settles
ClearCacheFileDone(r) ==
    /\ run[r].pc = "clearCacheFile"
    /\ hashes' = {}
    /\ CallScan(Cur, r, run)
    /\ lastOp' = NoRet
    /\ UNCHANGED <<isFeatureConfigured, points, clr>>

(* the scanner, as the orchestrator sees it: the callbacks it invokes and the *)
(* writes it makes to the vector collection and the hash cache; each file     *)
(* that has blocks has one block, and each block is a batch of its own        *)

\* onError: the orchestrator's callback collects the error (only the first
\* collected error is ever read, so only the first is kept)
onError(rec, message) ==
    [rec EXCEPT !.batchErrors = IF @ = <<>> THEN <<message>> ELSE @]

\* listFiles settles
ListFilesDone(r) ==
    /\ run[r].pc = "listFiles"
    /\ lastOp' = NoRet
    /\ UNCHANGED <<isFeatureConfigured, points, hashes, clr>>
    /\ \/ /\ Commit(Cur)
          /\ run' = [run EXCEPT ![r].pc = "parse", ![r].todo = Files]
       \/ Catch(Cur, r, run[r], "listFiles failed")

\* the parse task of the next listed file; handleFileProgress is its first
\* statement
ProcessFile(r) ==
    /\ run[r].pc = "parse"
    /\ run[r].todo # {}
    /\ lastOp' = NoRet
    /\ UNCHANGED <<isFeatureConfigured, points, clr>>
    /\ LET f == CHOOSE x \in run[r].todo : \A y \in run[r].todo : x <= y
           n == NumFiles - Cardinality(run[r].todo) + 1
           o == [Cur EXCEPT !.sm = reportFileQueueProgress(@, n, NumFiles, FileName(f))]
           rec == [run[r] EXCEPT !.processedFiles = n, !.todo = @ \ {f}]
       IN  \/ \* stat, readFile or parseFile throws: reported through onError
              /\ Commit(o)
              /\ run' = [run EXCEPT ![r] = onError([rec EXCEPT !.changed = TRUE], "file error")]
              /\ UNCHANGED hashes
           \/ \* skipped: larger than MAX_FILE_SIZE_BYTES
              /\ Commit(o)
              /\ run' = [run EXCEPT ![r] = [rec EXCEPT !.changed = TRUE]]
              /\ UNCHANGED hashes
           \/ \* skipped: the cached hash equals the current one
              /\ f \in hashes
              /\ Commit(o)
              /\ run' = [run EXCEPT ![r] = rec]
              /\ UNCHANGED hashes
           \/ \* parsed into blocks: accumulated for the batches
              /\ Commit(o)
              /\ run' = [run EXCEPT ![r] = [rec EXCEPT !.batch = @ \cup {f}, !.changed = TRUE]]
              /\ UNCHANGED hashes
           \/ \* parsed into zero blocks: the hash is updated at once
              /\ Commit(Calling(o, "cache"))
              /\ run' = [run EXCEPT ![r] = [rec EXCEPT !.changed = TRUE]]
              /\ hashes' = hashes \cup {f}

handleBlockProcessingStart(o, totalBlocks) ==
    [o EXCEPT !.sm = reportBlockIndexingProgress(@, 0, totalBlocks)]

\* all parse tasks settled: onBlockProcessingStart(allBlocksToProcess.length)
BlockProcessingStart(r) ==
    /\ run[r].pc = "parse"
    /\ run[r].todo = {}
    /\ LET n == Cardinality(run[r].batch)
       IN  /\ Commit(handleBlockProcessingStart(Cur, n))
           /\ run' = [run EXCEPT ![r].pc = "batches", ![r].totalBlocksFound = n,
                                 ![r].blocksFound = n, ![r].collectionCreated = FALSE]
    /\ lastOp' = NoRet
    /\ UNCHANGED <<isFeatureConfigured, points, hashes, clr>>

handleBlocksIndexed(o, rec, indexedCount) ==
    LET cum == rec.cumulativeBlocksIndexed + indexedCount
    IN  IF rec.totalBlocksFound > 0
        THEN [o EXCEPT !.sm = reportBlockIndexingProgress(@, cum, rec.totalBlocksFound)]
        ELSE o

\* one batch (the block of file f) settles
BatchDone(r, f) ==
    /\ run[r].pc = "batches"
    /\ f \in run[r].batch
    /\ lastOp' = NoRet
    /\ UNCHANGED <<isFeatureConfigured, clr>>
    /\ \/ \* upserted: onBlocksIndexed(1), then the hash is updated
          /\ points' = points \cup {f}
          /\ hashes' = hashes \cup {f}
          /\ Commit(Calling(Calling(handleBlocksIndexed(Cur, run[r], 1), "vectorStore"),
                            "cache"))
          /\ run' = [run EXCEPT ![r].batch = @ \ {f},
                                ![r].cumulativeBlocksIndexed = @ + 1]
       \/ \* every attempt failed: onError
          /\ Commit(Calling(Cur, "vectorStore"))
          /\ run' = [run EXCEPT ![r] = onError([@ EXCEPT !.batch = @ \ {f}], "batch failed")]
          /\ UNCHANGED <<points, hashes>>

\* The integrity check made after the scan returned.
IntegrityViolated(processedFiles, cumulativeBlocksIndexed, totalBlocksFound) ==
    processedFiles > 0 /\ cumulativeBlocksIndexed = 0 /\ totalBlocksFound > 0

\* stats.totalBlocksIndexed of the scan's result: the sum of the batches' results
totalBlocksIndexed(rec) == rec.cumulativeBlocksIndexed

\* scanDirectory returns; startIndexing runs on to the await in _startWatcher
ScanReturn(r) ==
    /\ run[r].pc = "batches"
    /\ run[r].batch = {}
    /\ lastOp' = NoRet
    /\ UNCHANGED <<isFeatureConfigured, points, hashes, clr>>
    /\ LET totalBlocksFound == totalBlocksIndexed(run[r])
           o1 == [Cur EXCEPT !.sm = reportBlockIndexingProgress(
                                        reportBlockIndexingProgress(@, 0, totalBlocksFound),
                                        run[r].cumulativeBlocksIndexed, totalBlocksFound)]
           rec == [run[r] EXCEPT !.totalBlocksFound = totalBlocksFound]
       IN  IF IntegrityViolated(rec.processedFiles, rec.cumulativeBlocksIndexed,
                                rec.totalBlocksFound)
           THEN Catch(o1, r, rec, "Indexing failed: No code blocks were indexed")
           ELSE IF ~isFeatureConfigured
           THEN Catch(o1, r, rec, "Cannot start watcher: Service not configured.")
           ELSE /\ Commit(Calling(State(o1, "Indexing", Plain("Initializing file watcher...")),
                                  "watcher"))
                /\ run' = [run EXCEPT ![r] = [rec EXCEPT !.pc = "watcherInit"]]

\* the watcher started, as it would be with Indexed set whatever the queue holds
C13_AlwaysIndexed(o, queueSize) ==
    IF o.sm.st.systemStatus = "Error" THEN o
    ELSE State(o, "Indexed", Plain("Index is up-to-date."))

\* the status startIndexing sets after _startWatcher returned
finalState(o, queueSize) ==
    IF o.sm.st.systemStatus = "Error" THEN o
    ELSE IF queueSize = 0
    THEN State(o, "Indexed", Plain("Index is up-to-date."))
    ELSE State(o, "Indexing", Plain("Initial scan complete. Watching for file changes..."))

\* fileWatcher.initialize() settles
WatcherInitDone(r) ==
    /\ run[r].pc = "watcherInit"
    /\ UNCHANGED <<isFeatureConfigured, points, hashes, clr>>
    /\ \/ \E queueSize \in 0..1 :
          LET o1 == [Cur EXCEPT !.watcher = "active", !.leaked = @ \/ subs, !.subs = TRUE]
              o2 == finalState(o1, queueSize)
          IN  /\ Commit(finally(Calling(o2, "watcher")))
              /\ run' = [run EXCEPT ![r] = IdleRun]
              /\ lastOp' = [RetStart(run[r], "completed") EXCEPT !.queueSize = queueSize]
       \/ /\ Catch(Cur, r, run[r], "fileWatcher.initialize failed")
          /\ lastOp' = NoRet

\* the catch block's awaits: clearCollection, clearCacheFile, forceStopAndClear itself
CatchClearDone(r) ==
    /\ run[r].pc = "catchClearCollection"
    /\ lastOp' = NoRet
    /\ run' = [run EXCEPT ![r].pc = "catchClearCacheFile"]
    /\ UNCHANGED <<isFeatureConfigured, hashes, clr>>
    /\ \/ /\ points' = {}
          /\ Commit(Calling(Cur, "cache"))
       \/ /\ UNCHANGED points
          /\ Commit(Calling(State(Cur, "Error",
                                  Msg("Failed to clear vector collection: %s", <<>>,
                                      "clearCollection failed")), "cache"))

CatchCacheDone(r) ==
    /\ run[r].pc = "catchClearCacheFile"
    /\ hashes' = {}
    /\ Commit(IF status.systemStatus # "Error"
              THEN State(Cur, "Standby", Plain("Index data cleared successfully."))
              ELSE Cur)
    /\ run' = [run EXCEPT ![r].pc = "catchReturn", ![r].teardown = @ \cup {"clearCacheFile"}]
    /\ lastOp' = NoRet
    /\ UNCHANGED <<isFeatureConfigured, points, clr>>

CatchReturn(r) ==
    /\ run[r].pc = "catchReturn"
    /\ Commit(finally(State(Cur, "Error",
                            Msg("Failed during initial scan: %s", <<>>, run[r].cause))))
    /\ run' = [run EXCEPT ![r] = IdleRun]
    /\ lastOp' = RetStart(run[r], "failed")
    /\ UNCHANGED <<isFeatureConfigured, points, hashes, clr>>

(* the other public calls *)

RequestStop ==
    /\ LET o == requestStop(Cur)
       IN  Receive(o) /\ run' = Tokens(run, o, TRUE)
    /\ lastOp' = NoRet
    /\ UNCHANGED <<isFeatureConfigured, points, hashes, clr>>

StopWatcher ==
    /\ Receive(stopWatcher(Cur))
    /\ lastOp' = [NoRet EXCEPT !.call = "stopWatcher"]
    /\ UNCHANGED <<isFeatureConfigured, points, hashes, run, clr>>

RetClr(c) ==
    [NoRet EXCEPT !.call = IF c.viaClearIndexData THEN "clearIndexData" ELSE "forceStopAndClear",
                  !.outcome = "returned", !.clearFailed = c.clearFailed]

\* forceStopAndClear(), called directly or (via) by clearIndexData(), up to its
\* first await
ForceStopAndClear(via) ==
    /\ clr.pc = "idle"
    /\ LET o1 == IF via THEN [Cur EXCEPT !.isProcessing = TRUE] ELSE Cur
           b == forceStopAndClearBegin(o1, isFeatureConfigured)
       IN  /\ Receive(b.o)
           /\ run' = Tokens(run, b.o, FALSE)
           /\ clr' = [pc |-> b.pc, viaClearIndexData |-> via, clearFailed |-> FALSE,
                       cleared |-> clr.cleared]
    /\ lastOp' = NoRet
    /\ UNCHANGED <<isFeatureConfigured, points, hashes>>

\* vectorStore.clearCollection() settles
ClrClearDone ==
    /\ clr.pc = "clearCollection"
    /\ lastOp' = NoRet
    /\ UNCHANGED <<isFeatureConfigured, hashes, run>>
    /\ \/ /\ points' = {}
          /\ Commit(Calling(Cur, "cache"))
          /\ clr' = [clr EXCEPT !.pc = "clearCacheFile"]
       \/ /\ UNCHANGED points
          /\ Commit(Calling(State(Cur, "Error",
                                  Msg("Failed to clear vector collection: %s", <<>>,
                                      "clearCollection failed")), "cache"))
          /\ clr' = [clr EXCEPT !.pc = "clearCacheFile", !.clearFailed = TRUE]

\* cacheManager.clearCacheFile() settles; forceStopAndClear returns
ClrCacheDone ==
    /\ clr.pc = "clearCacheFile"
    /\ hashes' = {}
    /\ Commit(IF status.systemStatus # "Error"
              THEN State(Cur, "Standby", Plain("Index data cleared successfully."))
              ELSE Cur)
    /\ IF clr.viaClearIndexData
       THEN clr' = [clr EXCEPT !.pc = "return"] /\ lastOp' = NoRet
       ELSE clr' = [IdleClr EXCEPT !.cleared = clr.cleared] /\ lastOp' = RetClr(clr)
    /\ UNCHANGED <<isFeatureConfigured, points, run>>

\* clearIndexData resumes after its await and returns
ClrReturn ==
    /\ clr.pc = "return"
    /\ Commit([Cur EXCEPT !.isProcessing = FALSE])
    /\ clr' = [IdleClr EXCEPT !.cleared = TRUE]
    /\ lastOp' = RetClr(clr)
    /\ UNCHANGED <<isFeatureConfigured, points, hashes, run>>

(* the file watcher's events, delivered to the subscribed handlers *)

Subscribed == watcher = "active" /\ (subs \/ leaked)

OnDidStartBatchProcessing ==
    /\ Subscribed
    /\ Receive([Cur EXCEPT !.batchHasError = FALSE])
    /\ lastOp' = NoRet
    /\ UNCHANGED <<isFeatureConfigured, points, hashes, run, clr>>

OnBatchProgressUpdate(processedInBatch, totalInBatch) ==
    /\ Subscribed
    /\ LET o1 == IF totalInBatch > 0 /\ status.systemStatus # "Indexing"
                 THEN State(Cur, "Indexing", Plain("Processing file changes..."))
                 ELSE Cur
       IN  Receive([o1 EXCEPT !.sm = reportFileQueueProgress(@, processedInBatch, totalInBatch,
                                                            FileName(1))])
    /\ lastOp' = NoRet
    /\ UNCHANGED <<isFeatureConfigured, points, hashes, run, clr>>

\* the batch-finish handler marking the index complete whatever the status is
C26_AlwaysPromote(o, batchError) ==
    IF batchError
    THEN State([o EXCEPT !.batchHasError = TRUE], "Error",
               Msg("Batch processing failed: %s", <<>>, "watcher batch failed"))
    ELSE State(o, "Indexed", Plain("Index up-to-date. File queue processed."))

\* the handler subscribed to onDidFinishBatchProcessing
onDidFinishBatchProcessing(o, batchError) ==
    IF batchError
    THEN State([o EXCEPT !.batchHasError = TRUE], "Error",
               Msg("Batch processing failed: %s", <<>>, "watcher batch failed"))
    ELSE IF o.sm.st.systemStatus = "Indexing"
    THEN State(o, "Indexed", Plain("Index up-to-date. File queue processed."))
    ELSE o

OnDidFinishBatchProcessing(batchError) ==
    /\ Subscribed
    /\ Receive(onDidFinishBatchProcessing(Cur, batchError))
    /\ lastOp' = [NoRet EXCEPT !.call = "onDidFinishBatchProcessing",
                               !.outcome = IF batchError THEN "batchError" ELSE "ok"]
    /\ UNCHANGED <<isFeatureConfigured, points, hashes, run, clr>>

\* the settings are saved: the feature becomes configured, or stops being so
ConfigChange ==
    /\ isFeatureConfigured' = ~isFeatureConfigured
    /\ Receive(Cur)
    /\ lastOp' = NoRet
    /\ UNCHANGED <<points, hashes, run, clr>>

(* ------- CodeIndexOrchestrator, the second variant in the source ------- *)
(* It has no cancellation token, no requestStop and no forceStopAndClear;    *)
(* its integrity checks, its catch block, stopWatcher and clearIndexData     *)
(* differ. The scanner callbacks and the watcher handlers are the same.      *)

stopWatcher2(o) ==
    LET o1 == [Calling(o, "watcher") EXCEPT !.watcher = "disposed", !.subs = FALSE]
        o2 == IF o1.sm.st.systemStatus # "Error"
              THEN State(o1, "Standby", Plain("File watcher stopped."))
              ELSE o1
    IN  [o2 EXCEPT !.isProcessing = FALSE]

\* the finally block of startIndexing
finally2(o) == [o EXCEPT !.isProcessing = FALSE]

\* The catch block up to its first await, vectorStore.clearCollection().
Catch2(o, r, rec, cause) ==
    /\ Commit(Calling(o, "vectorStore"))
    /\ run' = [run EXCEPT ![r] = [rec EXCEPT !.cause = cause,
                                             !.collectionCreated = FALSE,
                                             !.teardown = {"clearCollection"},
                                             !.pc = "catchClearCollection"]]

startIndexing2 ==
    \/ /\ NotConfigured
       /\ LET o == rejectNotConfigured(Cur)
          IN  Receive(o) /\ lastOp' = Rejected(o, "notConfigured")
       /\ UNCHANGED <<isFeatureConfigured, points, hashes, run, clr>>
    \/ /\ ~NotConfigured
       /\ Busy
       /\ LET o == rejectBusy(Cur)
          IN  Receive(o) /\ lastOp' = Rejected(o, "busy")
       /\ UNCHANGED <<isFeatureConfigured, points, hashes, run, clr>>
    \/ \E r \in Runs :
       /\ FreeSlot(r)
       /\ ~NotConfigured
       /\ ~Busy
       /\ LET o1 == [Cur EXCEPT !.isProcessing = TRUE]
              o2 == State(o1, "Indexing", Plain("Initializing services..."))
          IN  Receive(Calling(o2, "vectorStore"))
       /\ run' = [run EXCEPT ![r] =
                    [IdleRun EXCEPT !.pc = "initialize",
                                    !.from = status.systemStatus,
                                    !.n0 = IF clr.pc = "idle" /\ \A q \in Runs : run[q].pc = "idle"
                                           THEN ncalls + 1 ELSE 0]]
       /\ clr' = [clr EXCEPT !.cleared = FALSE]
       /\ lastOp' = NoRet
       /\ UNCHANGED <<isFeatureConfigured, points, hashes>>

\* vectorStore.initialize() settles
InitializeDone2(r) ==
    /\ run[r].pc = "initialize"
    /\ lastOp' = NoRet
    /\ UNCHANGED <<isFeatureConfigured, hashes, clr>>
    /\ \/ \* a new collection was created
          /\ points' = {}
          /\ Commit(Calling(Cur, "cache"))
          /\ run' = [run EXCEPT ![r].pc = "clearCacheFile", ![r].collectionCreated = TRUE]
       \/ /\ CallScan(Cur, r, run)
          /\ UNCHANGED points
       \/ /\ Catch2(Cur, r, run[r], "vectorStore.initialize failed")
          /\ UNCHANGED points

\* listFiles settles
ListFilesDone2(r) ==
    /\ run[r].pc = "listFiles"
    /\ lastOp' = NoRet
    /\ UNCHANGED <<isFeatureConfigured, points, hashes, clr>>
    /\ \/ /\ Commit(Cur)
          /\ run' = [run EXCEPT ![r].pc = "parse", ![r].todo = Files]
       \/ Catch2(Cur, r, run[r], "listFiles failed")

\* The two integrity checks made after the scan returned.
FailedCompletely(batchErrors, cumulativeBlocksIndexed, totalBlocksFound) ==
    Len(batchErrors) > 0 /\ cumulativeBlocksIndexed = 0 /\ totalBlocksFound > 0

NoBlocksIndexed(processedFiles, cumulativeBlocksIndexed, batchErrors) ==
    processedFiles > 0 /\ cumulativeBlocksIndexed = 0 /\ Len(batchErrors) = 0

\* scanDirectory returns; startIndexing runs on to the await in _startWatcher
ScanReturn2(r) ==
    /\ run[r].pc = "batches"
    /\ run[r].batch = {}
    /\ lastOp' = NoRet
    /\ UNCHANGED <<isFeatureConfigured, points, hashes, clr>>
    /\ LET totalBlocksFound == totalBlocksIndexed(run[r])
           o1 == [Cur EXCEPT !.sm = reportBlockIndexingProgress(
                                        reportBlockIndexingProgress(@, 0, totalBlocksFound),
                                        run[r].cumulativeBlocksIndexed, totalBlocksFound)]
           rec == [run[r] EXCEPT !.totalBlocksFound = totalBlocksFound]
       IN  IF FailedCompletely(rec.batchErrors, rec.cumulativeBlocksIndexed,
                               rec.totalBlocksFound)
           THEN Catch2(o1, r, rec, "Indexing failed completely")
           ELSE IF NoBlocksIndexed(rec.processedFiles, rec.cumulativeBlocksIndexed,
                                   rec.batchErrors)
           THEN Catch2(o1, r, rec, "Indexing failed: No code blocks were indexed")
           ELSE IF ~isFeatureConfigured
           THEN Catch2(o1, r, rec, "Cannot start watcher: Service not configured.")
           ELSE /\ Commit(Calling(State(o1, "Indexing", Plain("Initializing file watcher...")),
                                  "watcher"))
                /\ run' = [run EXCEPT ![r] = [rec EXCEPT !.pc = "watcherInit"]]

\* fileWatcher.initialize() settles
WatcherInitDone2(r) ==
    /\ run[r].pc = "watcherInit"
    /\ UNCHANGED <<isFeatureConfigured, points, hashes, clr>>
    /\ \/ \E queueSize \in 0..1 :
          LET o1 == [Cur EXCEPT !.watcher = "active", !.leaked = @ \/ subs, !.subs = TRUE]
              o2 == finalState(o1, queueSize)
          IN  /\ Commit(finally2(Calling(o2, "watcher")))
              /\ run' = [run EXCEPT ![r] = IdleRun]
              /\ lastOp' = [RetStart(run[r], "completed") EXCEPT !.queueSize = queueSize]
       \/ /\ Catch2(Cur, r, run[r], "fileWatcher.initialize failed")
          /\ lastOp' = NoRet

\* the catch block's clearCollection settles; its failure is only logged
Catch2ClearDone(r) ==
    /\ run[r].pc = "catchClearCollection"
    /\ lastOp' = NoRet
    /\ run' = [run EXCEPT ![r].pc = "catchClearCacheFile"]
    /\ Commit(Calling(Cur, "cache"))
    /\ UNCHANGED <<isFeatureConfigured, hashes, clr>>
    /\ \/ points' = {}
       \/ UNCHANGED points

\* the catch block's clearCacheFile settles: Error is set, the watcher is
\* stopped, and startIndexing returns through its finally block
Catch2CacheDone(r) ==
    /\ run[r].pc = "catchClearCacheFile"
    /\ hashes' = {}
    /\ Commit(finally2(stopWatcher2(State(Cur, "Error",
                  Msg("Failed during initial scan: %s", <<>>, run[r].cause)))))
    /\ run' = [run EXCEPT ![r] = IdleRun]
    /\ lastOp' = RetStart([run[r] EXCEPT !.teardown = @ \cup {"clearCacheFile", "stopWatcher"}],
                          "failed")
    /\ UNCHANGED <<isFeatureConfigured, points, clr>>

StopWatcher2 ==
    /\ Receive(stopWatcher2(Cur))
    /\ lastOp' = [NoRet EXCEPT !.call = "stopWatcher"]
    /\ UNCHANGED <<isFeatureConfigured, points, hashes, run, clr>>

\* clearIndexData() up to its first await, that of stopWatcher()'s result
ClearIndexData2 ==
    /\ clr.pc = "idle"
    /\ Receive(stopWatcher2([Cur EXCEPT !.isProcessing = TRUE]))
    /\ clr' = [pc |-> "stopWatcher", viaClearIndexData |-> TRUE, clearFailed |-> FALSE,
               cleared |-> clr.cleared]
    /\ lastOp' = NoRet
    /\ UNCHANGED <<isFeatureConfigured, points, hashes, run>>

\* clearIndexData resumes: deleteCollection when configured, else clearCacheFile
Clr2StopWatcherDone ==
    /\ clr.pc = "stopWatcher"
    /\ IF isFeatureConfigured
       THEN Commit(Calling(Cur, "vectorStore")) /\ clr' = [clr EXCEPT !.pc = "deleteCollection"]
       ELSE Commit(Calling(Cur, "cache")) /\ clr' = [clr EXCEPT !.pc = "clearCacheFile"]
    /\ lastOp' = NoRet
    /\ UNCHANGED <<isFeatureConfigured, points, hashes, run>>

\* vectorStore.deleteCollection() settles
Clr2DeleteDone ==
    /\ clr.pc = "deleteCollection"
    /\ lastOp' = NoRet
    /\ UNCHANGED <<isFeatureConfigured, hashes, run>>
    /\ \/ /\ points' = {}
          /\ Commit(Calling(Cur, "cache"))
          /\ clr' = [clr EXCEPT !.pc = "clearCacheFile"]
       \/ /\ UNCHANGED points
          /\ Commit(Calling(State(Cur, "Error",
                                  Msg("Failed to clear vector collection: %s", <<>>,
                                      "deleteCollection failed")), "cache"))
          /\ clr' = [clr EXCEPT !.pc = "clearCacheFile", !.clearFailed = TRUE]

\* cacheManager.clearCacheFile() settles; clearIndexData returns
Clr2CacheDone ==
    /\ clr.pc = "clearCacheFile"
    /\ hashes' = {}
    /\ Commit(finally2(IF status.systemStatus # "Error"
                       THEN State(Cur, "Standby", Plain("Index data cleared successfully."))
                       ELSE Cur))
    /\ clr' = [IdleClr EXCEPT !.cleared = TRUE]
    /\ lastOp' = RetClr(clr)
    /\ UNCHANGED <<isFeatureConfigured, points, run>>

(* --------------------------- DirectoryScanner -------------------------- *)

Contents == 1..NumContents

\* the number of blocks the parser finds in a content
NBlocks(content) == content % (MaxBlocks + 1)

\* sha256 of a content: one hash per content, and no hash is 0
createHash(content) == 2 * content + 1

\* A text is a sequence of characters, 0 being a space. The text of the i-th
\* block of a content: the first block of a two-block content is whitespace.
blockText(content, i) == IF NBlocks(content) = 2 /\ i = 1 THEN <<0>> ELSE <<content, i>>

\* codeParser.parseFile: a block carries its path, its text and its segment hash
parseFile(filePath, content) ==
    [i \in 1..NBlocks(content) |->
        [file_path |-> filePath, content |-> blockText(content, i),
         segmentHash |-> <<filePath, content, i>>]]

RECURSIVE trim(_)
\* String.prototype.trim
trim(text) ==
    IF text = <<>> THEN text
    ELSE IF Head(text) = 0 THEN trim(Tail(text))
    ELSE IF text[Len(text)] = 0 THEN trim(SubSeq(text, 1, Len(text) - 1))
    ELSE text

\* batchBlocks.map((b) => b.content.trim()).filter(Boolean)
batchTextsOf(batchBlocks) ==
    SelectSeq([i \in DOMAIN batchBlocks |-> trim(batchBlocks[i].content)],
              LAMBDA text : text # <<>>)

\* embedder.createEmbeddings: one embedding per text, in the order of the texts
embeddingsOf(texts) == [i \in DOMAIN texts |-> <<"embedding", texts[i]>>]

\* embeddings[index] of an index the array does not have
UndefinedVector == <<"undefined", <<>>>>

\* the points processBatch builds: the id is derived from the segment hash,
\* the vector is embeddings[index], the payload holds the path and the text
pointsOf(batchBlocks, embeddings) ==
    [index \in DOMAIN batchBlocks |->
        [id |-> <<"uuidv5", batchBlocks[index].segmentHash>>,
         vector |-> IF index \in DOMAIN embeddings THEN embeddings[index]
                    ELSE UndefinedVector,
         filePath |-> batchBlocks[index].file_path,
         codeChunk |-> batchBlocks[index].content]]

Range(s) == {s[i] : i \in DOMAIN s}

\* vectorStore.upsertPoints: a point replaces the point that has its id
upsertPoints(st, pts) ==
    {p \in st : \A q \in Range(pts) : q.id # p.id} \cup Range(pts)

\* The locals of scanDirectory, and what the call has done so far: parsed holds
\* the files parseFile was called for, large the files skipped for their size,
\* envFault tells that a file could not be read or was too large, parseFailed that parseFile threw, deleteCalls counts
\* the deletePointsByFilePath calls, deleteFailed holds the paths whose call
\* failed; cache0 and store0 are the cache and the store the call started
\* with. prevClean tells that the previous call met no failure of any kind and
\* that no file was edited since.
IdleScan ==
    [pc |-> "idle", todo |-> {}, processedFiles |-> {}, processedCount |-> 0,
     skippedCount |-> 0, allBlocksToProcess |-> <<>>, allFileInfosToProcess |-> <<>>,
     totalBlocksIndexed |-> 0, cache0 |-> <<>>,
     deleteCalls |-> [f \in Files |-> 0], deleteFailed |-> {},
     parsed |-> {}, large |-> {}, envFault |-> FALSE, parseFailed |-> FALSE, store0 |-> {},
     prevClean |-> FALSE]

NoScan == [returned |-> FALSE, processed |-> 0, skipped |-> 0, totalBlocksIndexed |-> 0]

ScanInit ==
    /\ disk \in [Files -> 0..NumContents]
    /\ cache = [f \in Files |-> 0]
    /\ store = {}
    /\ scan = IdleScan
    /\ batches = <<>>
    /\ lastScan = NoScan
    /\ nscans = 0

\* a file is created, edited or deleted while no scan is in flight
Edit(f, content) ==
    /\ scan.pc = "idle"
    /\ nscans < MaxScans
    /\ disk[f] # content
    /\ disk' = [disk EXCEPT ![f] = content]
    /\ scan' = [scan EXCEPT !.prevClean = FALSE]
    /\ lastScan' = NoScan
    /\ UNCHANGED <<cache, store, batches, nscans>>
    /\ UNCHANGED <<orchVars, smVars, embVars>>

\* scanDirectory is called: listFiles settles, and the paths are filtered
scanDirectory ==
    /\ scan.pc = "idle"
    /\ nscans < MaxScans
    /\ nscans' = nscans + 1
    /\ scan' = [IdleScan EXCEPT !.pc = "parse", !.todo = {f \in Files : disk[f] # 0},
                                !.cache0 = cache, !.store0 = store,
                                !.prevClean = scan.prevClean]
    /\ lastScan' = NoScan
    /\ UNCHANGED <<disk, cache, store, batches>>
    /\ UNCHANGED <<orchVars, smVars, embVars>>

\* the change detection as it would be if no file ever counted as unchanged
C30_NeverUnchanged(cachedFileHash, currentFileHash) == FALSE

\* the cache check of the parse task: the file is unchanged
unchanged(cachedFileHash, currentFileHash) == cachedFileHash = currentFileHash

\* The parse task of one listed file. stat or readFile may throw (readFails),
\* the file may exceed MAX_FILE_SIZE_BYTES (tooLarge), parseFile may throw
\* (parseFails); a thrown error is handed to onError.
ParseTask(f, readFails, tooLarge, parseFails) ==
    /\ scan.pc = "parse"
    /\ f \in scan.todo
    /\ lastScan' = NoScan
    /\ UNCHANGED <<disk, store, batches, nscans>>
    /\ UNCHANGED <<orchVars, smVars, embVars>>
    /\ LET s0 == [scan EXCEPT !.todo = @ \ {f}]
           currentFileHash == createHash(disk[f])
           cachedFileHash == cache[f]
           s1 == [s0 EXCEPT !.processedFiles = @ \cup {f}]
           blocks == parseFile(f, disk[f])
           s2 == [s1 EXCEPT !.parsed = @ \cup {f}]
       IN  IF readFails
           THEN scan' = [s0 EXCEPT !.envFault = TRUE] /\ UNCHANGED cache
           ELSE IF tooLarge
           THEN /\ scan' = [s0 EXCEPT !.skippedCount = @ + 1, !.envFault = TRUE,
                                      !.large = @ \cup {f}]
                /\ UNCHANGED cache
           ELSE IF unchanged(cachedFileHash, currentFileHash)
           THEN scan' = [s1 EXCEPT !.skippedCount = @ + 1] /\ UNCHANGED cache
           ELSE IF parseFails
           THEN scan' = [s2 EXCEPT !.parseFailed = TRUE] /\ UNCHANGED cache
           ELSE IF Len(blocks) > 0
           THEN /\ scan' = [s2 EXCEPT
                      !.allBlocksToProcess = @ \o blocks,
                      !.allFileInfosToProcess =
                          Append(@, [filePath |-> f, fileHash |-> currentFileHash,
                                     isNew |-> cachedFileHash = 0]),
                      !.processedCount = @ + 1]
                /\ UNCHANGED cache
           ELSE /\ scan' = [s2 EXCEPT !.processedCount = @ + 1]
                /\ cache' = [cache EXCEPT ![f] = currentFileHash]

(* processBatch *)

\* an attempt as it would be without its deletion step
C10_EmbedFirst(b) ==
    [b EXCEPT !.attempts = @ + 1, !.deleted = FALSE, !.upserted = FALSE, !.pc = "embed"]

\* the paths whose points an attempt deletes first: the modified files
uniqueFilePaths(b) == {b.infos[i].filePath : i \in {j \in DOMAIN b.infos : ~b.infos[j].isNew}}

\* An attempt begins and runs up to its first await.
beginAttempt(b) ==
    [b EXCEPT !.attempts = @ + 1, !.deleted = FALSE, !.upserted = FALSE,
              !.pc = IF uniqueFilePaths(b) # {} THEN "delete" ELSE "embed"]

\* the catch block as it would be if the first failure were final
C27_GiveUpAtOnce(b) == [b EXCEPT !.pc = "failed", !.onError = @ + 1]

\* The catch block of an attempt: back off and retry, or give up and call onError.
attemptFailed(b) ==
    IF b.attempts < MAX_BATCH_RETRIES THEN [b EXCEPT !.pc = "backoff"]
    ELSE [b EXCEPT !.pc = "failed", !.onError = @ + 1]

\* createEmbeddings returned, as it would be with the hashes updated before the upsert
C9_HashFirst(b) == [b EXCEPT !.pc = "updateHash"]

\* createEmbeddings returned: the points are built and upsertPoints is called
embedded(b) == [b EXCEPT !.pc = "upsert"]

Min(a, b) == IF a < b THEN a ELSE b

\* the batch loop of scanDirectory: the k-th slice of the blocks, the infos of
\* the files that have a block in it, and processBatch called on them
makeBatch(k, blocks, infos) ==
    LET batchBlocks == SubSeq(blocks, (k - 1) * BATCH_SEGMENT_THRESHOLD + 1,
                              Min(k * BATCH_SEGMENT_THRESHOLD, Len(blocks)))
        batchFilePaths == {batchBlocks[i].file_path : i \in DOMAIN batchBlocks}
        batchFileInfos == SelectSeq(infos, LAMBDA info : info.filePath \in batchFilePaths)
    IN  beginAttempt([blocks |-> batchBlocks, texts |-> batchTextsOf(batchBlocks),
                      infos |-> batchFileInfos, attempts |-> 0, onError |-> 0,
                      deleted |-> FALSE, upserted |-> FALSE, pc |-> "new"])

\* every parse task settled: onBlockProcessingStart, then the batches start
StartBatches ==
    /\ scan.pc = "parse"
    /\ scan.todo = {}
    /\ scan' = [scan EXCEPT !.pc = "batches"]
    /\ LET n == Len(scan.allBlocksToProcess)
       IN  batches' = [k \in 1..((n + BATCH_SEGMENT_THRESHOLD - 1) \div BATCH_SEGMENT_THRESHOLD) |->
                          makeBatch(k, scan.allBlocksToProcess, scan.allFileInfosToProcess)]
    /\ lastScan' = NoScan
    /\ UNCHANGED <<disk, cache, store, nscans>>
    /\ UNCHANGED <<orchVars, smVars, embVars>>

BatchStep(k, pc) ==
    /\ scan.pc = "batches"
    /\ k \in DOMAIN batches
    /\ batches[k].pc = pc
    /\ lastScan' = NoScan
    /\ UNCHANGED <<disk, scan, nscans>>
    /\ UNCHANGED <<orchVars, smVars, embVars>>

\* deletePointsByMultipleFilePaths settles
DeleteDone(k, ok) ==
    /\ BatchStep(k, "delete")
    /\ UNCHANGED cache
    /\ IF ok
       THEN /\ store' = {p \in store : p.filePath \notin uniqueFilePaths(batches[k])}
            /\ batches' = [batches EXCEPT ![k] = [@ EXCEPT !.deleted = TRUE, !.pc = "embed"]]
       ELSE /\ batches' = [batches EXCEPT ![k] = attemptFailed(@)]
            /\ UNCHANGED store

\* createEmbeddings settles
EmbedDone(k, ok) ==
    /\ BatchStep(k, "embed")
    /\ UNCHANGED <<cache, store>>
    /\ batches' = [batches EXCEPT ![k] = IF ok THEN embedded(@) ELSE attemptFailed(@)]

\* upsertPoints settles; onBlocksIndexed is called, and the first updateHash
UpsertDone(k, ok) ==
    /\ BatchStep(k, "upsert")
    /\ UNCHANGED cache
    /\ IF ok
       THEN /\ store' = upsertPoints(store, pointsOf(batches[k].blocks,
                                                     embeddingsOf(batches[k].texts)))
            /\ batches' = [batches EXCEPT ![k] = [@ EXCEPT !.upserted = TRUE,
                                                           !.pc = "updateHash"]]
       ELSE /\ batches' = [batches EXCEPT ![k] = attemptFailed(@)]
            /\ UNCHANGED store

\* the batch's success as it would be without its updateHash loop
C12_KeepOldHashes(c, infos) == c

\* the cache after updateHash was called for each file info
updateHashes(c, infos) ==
    [f \in Files |->
        IF \E i \in DOMAIN infos : infos[i].filePath = f
        THEN LET i == CHOOSE j \in DOMAIN infos : infos[j].filePath = f
             IN  infos[i].fileHash
        ELSE c[f]]

\* the updateHash loop: the batch has succeeded
UpdateHashes(k) ==
    /\ BatchStep(k, "updateHash")
    /\ cache' = updateHashes(cache, batches[k].infos)
    /\ batches' = [batches EXCEPT ![k].pc = "done"]
    /\ UNCHANGED store

\* the retry delay elapsed: the next attempt begins
BackoffDone(k) ==
    /\ BatchStep(k, "backoff")
    /\ batches' = [batches EXCEPT ![k] = beginAttempt(@)]
    /\ UNCHANGED <<cache, store>>

RECURSIVE SumResults(_)
\* batchResults.reduce: a batch that succeeded returns its length, another 0
SumResults(bs) ==
    IF bs = <<>> THEN 0
    ELSE (IF Head(bs).pc = "done" THEN Len(Head(bs).blocks) ELSE 0) + SumResults(Tail(bs))

\* every batch settled: the cached paths that were not processed are
\* reconciled next
BatchesSettled ==
    /\ scan.pc = "batches"
    /\ \A k \in DOMAIN batches : batches[k].pc \in {"done", "failed"}
    /\ scan' = [scan EXCEPT !.pc = "reconcile",
                            !.totalBlocksIndexed = SumResults(batches),
                            !.todo = {f \in Files : cache[f] # 0 /\ f \notin scan.processedFiles}]
    /\ lastScan' = NoScan
    /\ UNCHANGED <<disk, cache, store, batches, nscans>>
    /\ UNCHANGED <<orchVars, smVars, embVars>>

\* the reconciliation as it would be with the hash deleted whatever the
\* deletion of the points did
C11_DeleteHashAnyway(c, cachedFilePath, deleted) == [c EXCEPT ![cachedFilePath] = 0]

\* cacheManager.deleteHash, reached only when deletePointsByFilePath returned
deleteHash(c, cachedFilePath, deleted) ==
    IF deleted THEN [c EXCEPT ![cachedFilePath] = 0] ELSE c

\* deletePointsByFilePath for the next such path settles; on success its hash
\* is deleted, on failure onError is called (deleteCalls counts the calls,
\* deleteFailed holds the paths reported to onError)
ReconcileDone(ok) ==
    /\ scan.pc = "reconcile"
    /\ scan.todo # {}
    /\ LET cachedFilePath == CHOOSE x \in scan.todo : \A y \in scan.todo : x <= y
       IN  /\ scan' = [scan EXCEPT !.todo = @ \ {cachedFilePath},
                                   !.deleteCalls[cachedFilePath] = @ + 1,
                                   !.deleteFailed = IF ok THEN @ ELSE @ \cup {cachedFilePath}]
           /\ store' = IF ok THEN {p \in store : p.filePath # cachedFilePath} ELSE store
           /\ cache' = deleteHash(cache, cachedFilePath, ok)
    /\ lastScan' = NoScan
    /\ UNCHANGED <<disk, batches, nscans>>
    /\ UNCHANGED <<orchVars, smVars, embVars>>

\* scanDirectory returns its statistics
ScanDirectoryReturn ==
    /\ scan.pc = "reconcile"
    /\ scan.todo = {}
    /\ lastScan' = [returned |-> TRUE, processed |-> scan.processedCount,
                    skipped |-> scan.skippedCount,
                    totalBlocksIndexed |-> scan.totalBlocksIndexed]
    /\ scan' = [IdleScan EXCEPT !.prevClean =
                    /\ ~scan.envFault
                    /\ ~scan.parseFailed
                    /\ scan.deleteFailed = {}
                    /\ \A k \in DOMAIN batches : batches[k].pc = "done"]
    /\ batches' = <<>>
    /\ UNCHANGED <<disk, cache, store, nscans>>
    /\ UNCHANGED <<orchVars, smVars, embVars>>

ScanNext ==
    \/ \E f \in Files, content \in 0..NumContents : Edit(f, content)
    \/ scanDirectory
    \/ \E f \in Files, readFails, tooLarge, parseFails \in BOOLEAN :
          ParseTask(f, readFails, tooLarge, parseFails)
    \/ StartBatches
    \/ \E k \in 1..(NumFiles * MaxBlocks), ok \in BOOLEAN : DeleteDone(k, ok)
    \/ \E k \in 1..(NumFiles * MaxBlocks), ok \in BOOLEAN : EmbedDone(k, ok)
    \/ \E k \in 1..(NumFiles * MaxBlocks), ok \in BOOLEAN : UpsertDone(k, ok)
    \/ \E k \in 1..(NumFiles * MaxBlocks) : UpdateHashes(k)
    \/ \E k \in 1..(NumFiles * MaxBlocks) : BackoffDone(k)
    \/ BatchesSettled
    \/ \E ok \in BOOLEAN : ReconcileDone(ok)
    \/ ScanDirectoryReturn

OrchNext2 ==
    \/ startIndexing2
    \/ StopWatcher2
    \/ ClearIndexData2
    \/ OnDidStartBatchProcessing
    \/ \E t \in 0..MaxWatchBatch : \E p \in 0..t : OnBatchProgressUpdate(p, t)
    \/ \E batchError \in BOOLEAN : OnDidFinishBatchProcessing(batchError)
    \/ ConfigChange
    \/ \E r \in Runs : InitializeDone2(r)
    \/ \E r \in Runs : ClearCacheFileDone(r)
    \/ \E r \in Runs : ListFilesDone2(r)
    \/ \E r \in Runs : ProcessFile(r)
    \/ \E r \in Runs : BlockProcessingStart(r)
    \/ \E r \in Runs, f \in Files : BatchDone(r, f)
    \/ \E r \in Runs : ScanReturn2(r)
    \/ \E r \in Runs : WatcherInitDone2(r)
    \/ \E r \in Runs : Catch2ClearDone(r)
    \/ \E r \in Runs : Catch2CacheDone(r)
    \/ Clr2StopWatcherDone
    \/ Clr2DeleteDone
    \/ Clr2CacheDone

OrchNext ==
    \/ startIndexing
    \/ RequestStop
    \/ StopWatcher
    \/ \E via \in BOOLEAN : ForceStopAndClear(via)
    \/ OnDidStartBatchProcessing
    \/ \E t \in 0..MaxWatchBatch : \E p \in 0..t : OnBatchProgressUpdate(p, t)
    \/ \E batchError \in BOOLEAN : OnDidFinishBatchProcessing(batchError)
    \/ ConfigChange
    \/ \E r \in Runs : InitializeDone(r)
    \/ \E r \in Runs : ClearCacheFileDone(r)
    \/ \E r \in Runs : ListFilesDone(r)
    \/ \E r \in Runs : ProcessFile(r)
    \/ \E r \in Runs : BlockProcessingStart(r)
    \/ \E r \in Runs, f \in Files : BatchDone(r, f)
    \/ \E r \in Runs : ScanReturn(r)
    \/ \E r \in Runs : WatcherInitDone(r)
    \/ \E r \in Runs : CatchClearDone(r)
    \/ \E r \in Runs : CatchCacheDone(r)
    \/ \E r \in Runs : CatchReturn(r)
    \/ ClrClearDone
    \/ ClrCacheDone
    \/ ClrReturn

(* ------------------- CodeIndexStateManager, called directly ----------- *)

IndexingStates == {"Standby", "Indexing", "Indexed", "Error"}

\* the messages a caller passes: none, a text, and the Standby default itself
Messages == {Undefined, Plain("x"), Plain("Ready.")}

NoCall ==
    [call |-> "", args |-> <<>>, before |-> InitialStatus, fired |-> 0,
     payload |-> InitialStatus]

SMInit == smLast = NoCall

\* One call on the state manager: r is the manager as the method leaves it.
\* The event is fired last in every method, so its payload is the state after.
SMCall(call, args, r) ==
    /\ status' = r.st
    /\ smLast' = [call |-> call, args |-> args, before |-> status, fired |-> r.ev,
                  payload |-> IF r.ev > 0 THEN r.st ELSE smLast.payload]

SetSystemState ==
    \E newState \in IndexingStates, message \in Messages :
        /\ SMCall("setSystemState", <<newState, message>>,
                  setSystemState(Begin(status), newState, message))
        /\ UNCHANGED <<orchRest, scanVars, embVars>>

ReportBlockIndexingProgress ==
    \E processedItems, totalItems \in 0..MaxItems :
        /\ SMCall("reportBlockIndexingProgress", <<processedItems, totalItems>>,
                  reportBlockIndexingProgress(Begin(status), processedItems, totalItems))
        /\ UNCHANGED <<orchRest, scanVars, embVars>>

ReportFileQueueProgress ==
    \E processedFiles, totalFiles \in 0..MaxItems, currentFileBasename \in {"", FileName(1)} :
        /\ SMCall("reportFileQueueProgress", <<processedFiles, totalFiles, currentFileBasename>>,
                  reportFileQueueProgress(Begin(status), processedFiles, totalFiles,
                                          currentFileBasename))
        /\ UNCHANGED <<orchRest, scanVars, embVars>>

ReportApiKeyUsage ==
    \E current, total \in 0..MaxKeys :
        /\ SMCall("reportApiKeyUsage", <<current, total>>,
                  reportApiKeyUsage(Begin(status), current, total))
        /\ UNCHANGED <<orchRest, scanVars, embVars>>

SMNext ==
    \/ SetSystemState
    \/ ReportBlockIndexingProgress
    \/ ReportFileQueueProgress
    \/ ReportApiKeyUsage

(* ------------------------------ GeminiEmbedder ------------------------ *)

EmbCalls == 1..MaxConcurrent

\* what client.createEmbeddings can settle with: a result, or an error with
\* status 429, with status 400 and "API key not valid", any other error, or
\* the CancellationError of a cancelled token
Settlements == {"ok", "rateLimit", "invalidKey", "other", "cancellation"}

ErrorMessage(error) ==
    CASE error = "rateLimit" -> "Rate limit exceeded"
      [] error = "invalidKey" -> "API key not valid"
      [] error = "other" -> "Internal error"
      [] OTHER -> "undefined"

\* A createEmbeddings call: where it waits (pc: "client" for the client's
\* request, "delay" for the backoff timer), its token and locals, and what it
\* has done: the attempts it made, the 1-based keys it tried, whether each of
\* its attempts took the key after the one of its previous attempt
\* (roundRobin), whether every error so far was a rate limit, whether no
\* other call was in flight with it (alone), and how it ended.
IdleCall ==
    [pc |-> "idle", i |-> 0, cancelled |-> FALSE, lastError |-> "undefined", delay |-> 0,
     attempts |-> 0, tried |-> {}, lastKey |-> 0, roundRobin |-> TRUE,
     onlyRateLimit |-> TRUE, alone |-> TRUE, outcome |-> "", message |-> Plain("")]

NoUsage == [current |-> 0, total |-> 0]

EmbInit ==
    /\ apiKeys \in 1..MaxKeys
    /\ keyIndex = 0
    /\ emb = [c \in EmbCalls |-> IdleCall]
    /\ keyUsage = NoUsage
    /\ nembed = 0

EmbInFlight == {c \in EmbCalls : emb[c].pc \in {"client", "delay"}}

\* getNextApiKey handing out the current key without advancing keyIndex
C18_SameKey(currentIndex, length) == [index |-> currentIndex + 1, keyIndex |-> currentIndex]

getNextApiKey(currentIndex, length) ==
    [index |-> currentIndex + 1, keyIndex |-> (currentIndex + 1) % length]

CancellationError(rec) == [rec EXCEPT !.pc = "threw", !.outcome = "cancelled"]

\* the retry delay of iteration i
retryDelay(i, length) == INITIAL_RETRY_DELAY * 2 ^ (i \div length)

\* The head of the loop for call c of e, up to the client's request, or the
\* code after the loop.
Iterate(e, c) ==
    LET rec == e[c]
        k == getNextApiKey(keyIndex, apiKeys)
    IN  IF rec.i < apiKeys * MAX_RETRIES
        THEN IF rec.cancelled
             THEN /\ emb' = [e EXCEPT ![c] = CancellationError(rec)]
                  /\ UNCHANGED <<keyIndex, keyUsage>>
             ELSE /\ keyIndex' = k.keyIndex
                  /\ keyUsage' = [current |-> k.index, total |-> apiKeys]
                  /\ emb' = [e EXCEPT ![c] =
                        [rec EXCEPT !.pc = "client",
                                    !.attempts = @ + 1,
                                    !.tried = @ \cup {k.index},
                                    !.lastKey = k.index,
                                    !.roundRobin = @ /\ (rec.lastKey = 0
                                         \/ k.index = (rec.lastKey % apiKeys) + 1)]]
        ELSE /\ keyUsage' = NoUsage
             /\ UNCHANGED keyIndex
             /\ emb' = [e EXCEPT ![c] =
                   [rec EXCEPT !.pc = "threw", !.outcome = "exhausted",
                               !.message = Msg("Failed to create embeddings after trying all API keys with retries. Last error: %s",
                                               <<>>, ErrorMessage(rec.lastError))]]

\* createEmbeddings is called with a token that is cancelled already, or not
createEmbeddings(c, cancelled) ==
    /\ emb[c].pc \notin {"client", "delay"}
    /\ nembed < MaxEmbeds
    /\ nembed' = nembed + 1
    /\ LET e == [d \in EmbCalls |->
                    IF d = c
                    THEN [IdleCall EXCEPT !.cancelled = cancelled, !.alone = (EmbInFlight = {})]
                    ELSE IF d \in EmbInFlight THEN [emb[d] EXCEPT !.alone = FALSE]
                    ELSE emb[d]]
       IN  Iterate(e, c)
    /\ UNCHANGED <<orchVars, scanVars, smVars, apiKeys>>

\* the token of call c is cancelled
CancelToken(c) ==
    /\ c \in EmbInFlight
    /\ ~emb[c].cancelled
    /\ emb' = [emb EXCEPT ![c].cancelled = TRUE]
    /\ UNCHANGED <<orchVars, scanVars, smVars, apiKeys, keyIndex, keyUsage, nembed>>

\* client.createEmbeddings settles
ClientDone(c, settlement) ==
    /\ emb[c].pc = "client"
    /\ settlement = "cancellation" => emb[c].cancelled
    /\ UNCHANGED <<orchVars, scanVars, smVars, apiKeys, nembed>>
    /\ CASE settlement = "ok" ->
              /\ keyUsage' = NoUsage
              /\ emb' = [emb EXCEPT ![c].pc = "returned", ![c].outcome = "result"]
              /\ UNCHANGED keyIndex
         [] settlement = "cancellation" ->
              /\ emb' = [emb EXCEPT ![c] = CancellationError(@)]
              /\ UNCHANGED <<keyIndex, keyUsage>>
         [] settlement = "rateLimit" ->
              /\ emb' = [emb EXCEPT ![c].pc = "delay", ![c].lastError = settlement,
                                    ![c].delay = retryDelay(emb[c].i, apiKeys)]
              /\ UNCHANGED <<keyIndex, keyUsage>>
         [] OTHER ->
              Iterate([emb EXCEPT ![c].lastError = settlement, ![c].onlyRateLimit = FALSE,
                                  ![c].i = @ + 1], c)

\* the backoff timer of call c fires
RetryDelayDone(c) ==
    /\ emb[c].pc = "delay"
    /\ UNCHANGED <<orchVars, scanVars, smVars, apiKeys, nembed>>
    /\ IF emb[c].cancelled
       THEN /\ emb' = [emb EXCEPT ![c] = CancellationError(@)]
            /\ UNCHANGED <<keyIndex, keyUsage>>
       ELSE Iterate([emb EXCEPT ![c].i = @ + 1], c)

EmbNext ==
    \/ \E c \in EmbCalls, cancelled \in BOOLEAN : createEmbeddings(c, cancelled)
    \/ \E c \in EmbCalls : CancelToken(c)
    \/ \E c \in EmbCalls, settlement \in Settlements : ClientDone(c, settlement)
    \/ \E c \in EmbCalls : RetryDelayDone(c)

vars == <<orchVars, scanVars, smVars, embVars>>

\* the orchestrator, with the scanner seen through its callbacks
Init ==
    /\ OrchInit
    /\ ScanInit
    /\ disk = [f \in Files |-> 0]
    /\ SMInit
    /\ EmbInit
    /\ apiKeys = 1

Next == OrchNext

Spec == Init /\ [][Next]_vars

\* the second variant of the orchestrator
Spec2 == Init /\ [][OrchNext2]_vars

\* the scanner on its own, in a configured and idle orchestrator
InitScan ==
    /\ ScanInit
    /\ OrchInit
    /\ isFeatureConfigured
    /\ SMInit
    /\ EmbInit
    /\ apiKeys = 1

SpecScan == InitScan /\ [][ScanNext]_vars

\* The steps a scan in flight takes by itself: each is the continuation of an
\* awaited promise (stat, readFile, parseFile, the deletions, createEmbeddings,
\* upsertPoints, updateHash, the retry timer). Every such promise settles, by
\* resolving or by rejecting, and the event loop then runs its continuation.
ScanStep ==
    \/ \E f \in Files, readFails, tooLarge, parseFails \in BOOLEAN :
          ParseTask(f, readFails, tooLarge, parseFails)
    \/ StartBatches
    \/ \E k \in 1..(NumFiles * MaxBlocks), ok \in BOOLEAN : DeleteDone(k, ok)
    \/ \E k \in 1..(NumFiles * MaxBlocks), ok \in BOOLEAN : EmbedDone(k, ok)
    \/ \E k \in 1..(NumFiles * MaxBlocks), ok \in BOOLEAN : UpsertDone(k, ok)
    \/ \E k \in 1..(NumFiles * MaxBlocks) : UpdateHashes(k)
    \/ \E k \in 1..(NumFiles * MaxBlocks) : BackoffDone(k)
    \/ BatchesSettled
    \/ \E ok \in BOOLEAN : ReconcileDone(ok)
    \/ ScanDirectoryReturn

\* the scanner with its awaited promises settling
SpecScanFair == SpecScan /\ WF_vars(ScanStep)

\* the state manager on its own, in a configured and idle orchestrator
InitSM ==
    /\ Init
    /\ isFeatureConfigured

SpecSM == InitSM /\ [][SMNext]_vars

\* the embedder on its own
InitEmb ==
    /\ OrchInit
    /\ isFeatureConfigured
    /\ ScanInit
    /\ disk = [f \in Files |-> 0]
    /\ SMInit
    /\ EmbInit

SpecEmb == InitEmb /\ [][EmbNext]_vars

(* ------------------------ claims: the orchestrator --------------------- *)

InFlight == {r \in Runs : run[r].pc # "idle"}

StartReturned == lastOp.call = "startIndexing" /\ lastOp.outcome \in {"completed", "failed"}

\* C1: at most one indexing run is in flight at any time: a startIndexing call
\* made before the previous accepted run returned starts no second scan.
C1_AtMostOneRun == Cardinality(InFlight) <= 1

\* C3: a run whose scan processed files and found blocks, but indexed none of
\* them, ends with systemStatus Error.
C3_IntegrityEndsInError ==
    (StartReturned /\ lastOp.processedFiles > 0 /\ lastOp.blocksFound > 0
        /\ lastOp.blocksIndexed = 0)
    => status.systemStatus = "Error"

\* C4: a run during whose scan requestStop() was called ends with systemStatus
\* Standby and the message 'Indexing stopped by user.'.
C4_StopEndsInStandby ==
    (StartReturned /\ lastOp.token = "scan")
    => (status.systemStatus = "Standby"
        /\ status.message = Plain("Indexing stopped by user."))

ClearReturned == lastOp.call \in {"clearIndexData", "forceStopAndClear"}

\* C5: when clearIndexData() / forceStopAndClear() returns and clearCollection
\* did not fail in it, systemStatus is Standby, the watcher is disposed and the
\* vector collection and the hash cache are empty.
C5_HardReset ==
    (ClearReturned /\ ~lastOp.clearFailed)
    => (status.systemStatus = "Standby" /\ watcher = "disposed"
        /\ points = {} /\ hashes = {})

StartRejected == lastOp'.call = "startIndexing" /\ lastOp'.outcome \in {"notConfigured", "busy"}

NoCollaboratorTouched ==
    /\ lastOp'.calls = {}
    /\ UNCHANGED <<isProcessing, points, hashes, watcher, subs, leaked, cts, run, clr>>

\* C6 as stated: every rejected startIndexing call leaves the status, the
\* message and _isProcessing unchanged, fires no event and calls no collaborator.
C6_RejectedStartIsNoOp ==
    [][StartRejected => (NoCollaboratorTouched /\ lastOp'.fired = 0 /\ status' = status)]_vars

\* C6 as amended: a startIndexing call rejected because a run is processing or
\* the status is not Standby/Error/Indexed changes nothing and fires no event;
\* one rejected because the feature is not configured sets the status Standby
\* with the 'Missing configuration' message, firing at most one event, and
\* neither changes _isProcessing nor calls the vector store, scanner, cache or
\* watcher.
C6_RejectedStart ==
    [][StartRejected =>
         /\ NoCollaboratorTouched
         /\ lastOp'.outcome = "busy" => (status' = status /\ lastOp'.fired = 0)
         /\ lastOp'.outcome = "notConfigured" =>
              /\ status'.systemStatus = "Standby"
              /\ status'.message =
                     Plain("Missing configuration. Save your settings to start indexing.")
              /\ lastOp'.fired = (IF status' = status THEN 0 ELSE 1)]_vars

C6_Witness ==
    /\ lastOp.call = "startIndexing"
    /\ lastOp.outcome = "notConfigured"
    /\ lastOp.fired = 1
    /\ InFlight # {}

RunFailed == lastOp.call = "startIndexing" /\ lastOp.outcome = "failed"

\* C7 as stated: when a run that raised a non-cancellation error returns, the
\* watcher has been stopped, clearCollection has been attempted, the hash cache
\* has been cleared, and the status is Error with the cause in its message.
C7_RunFailureTeardown ==
    RunFailed =>
        /\ {"stopWatcher", "clearCollection", "clearCacheFile"} \subseteq lastOp.teardown
        /\ status.systemStatus = "Error"
        /\ status.message = Msg("Failed during initial scan: %s", <<>>, lastOp.cause)

\* C7 as amended: the same, except that clearCollection has been attempted
\* only if the feature was still configured when the teardown began.
C7_RunFailure ==
    RunFailed =>
        /\ {"stopWatcher", "clearCacheFile"} \subseteq lastOp.teardown
        /\ "configured" \in lastOp.teardown => "clearCollection" \in lastOp.teardown
        /\ status.systemStatus = "Error"
        /\ status.message = Msg("Failed during initial scan: %s", <<>>, lastOp.cause)

C7_Witness ==
    /\ RunFailed
    /\ lastOp.cause = "fileWatcher.initialize failed"
    /\ "clearCollection" \in lastOp.teardown

(* -------------------------- claims: the scanner ------------------------ *)

\* the content whose hash is h
ContentOf(h) == CHOOSE content \in Contents : createHash(content) = h

\* the ids of the points the store holds
StoreIds == {p.id : p \in store}

\* the ids of the points of the blocks
IdsOf(blocks) == {<<"uuidv5", blk.segmentHash>> : blk \in Range(blocks)}

\* the points of all the blocks of file f with the content whose hash is h
PointsOf(f, h) == IdsOf(parseFile(f, ContentOf(h)))

\* C2: whenever no scan is in flight, if the cache holds an entry for a path,
\* the vector store holds the points of all the blocks of the content that
\* entry is the hash of.
C2_CacheImpliesVectors ==
    scan.pc = "idle" => \A f \in Files : cache[f] # 0 => PointsOf(f, cache[f]) \subseteq StoreIds

Failed == {k \in DOMAIN batches : batches[k].pc = "failed"}

Succeeded == {k \in DOMAIN batches : batches[k].pc = "done"}

FilesOf(k) == {batches[k].blocks[i].file_path : i \in DOMAIN batches[k].blocks}

\* C8: when the batches of a scan have settled, one of them having failed all
\* its retries and the others having succeeded, the points of the others are in
\* the store, the cache entries of their files hold the new hashes, and no file
\* with a block in the failed batch has its cache entry updated to its new hash.
C8_BatchIsolation ==
    (scan.pc = "reconcile" /\ Cardinality(Failed) = 1 /\ Succeeded # {})
    => /\ \A k \in Succeeded :
            /\ IdsOf(batches[k].blocks) \subseteq StoreIds
            /\ \A f \in FilesOf(k) : cache[f] = createHash(disk[f])
       /\ \A k \in Failed : \A f \in FilesOf(k) : cache[f] # createHash(disk[f])

\* the files that produced blocks in the scan in flight
WithBlocks == {scan.allFileInfosToProcess[i].filePath : i \in DOMAIN scan.allFileInfosToProcess}

\* the batches that hold f's file info and whose upsertPoints call has
\* returned successfully in the attempt they are in
UpsertedFor(f) ==
    {k \in DOMAIN batches :
        /\ f \in FilesOf(k)
        /\ batches[k].upserted
        /\ batches[k].pc = "updateHash"}

\* C9: during a scan the cache entry of a file that produced blocks is written
\* only by a batch that contains the file and whose upsert has returned
\* successfully in the same attempt; and while no upsert of the scan has
\* succeeded, those files' entries are the ones the scan started with.
C9_HashAfterUpsert ==
    /\ [][\A f \in WithBlocks :
            (scan.pc # "idle" /\ cache'[f] # cache[f])
            => \E k \in UpsertedFor(f) : batches'[k].pc = "done"]_vars
    /\ [](scan.pc \in {"batches", "reconcile"}
            => ((\A k \in DOMAIN batches : ~batches[k].upserted)
                => \A f \in WithBlocks : cache[f] = scan.cache0[f]))

\* a scan ends in which a modified file's batch failed its upsert in every
\* attempt, the file's entry being the one the scan started with
C9_Witness ==
    /\ scan.pc = "reconcile"
    /\ \E k \in Failed :
          /\ batches[k].attempts = MAX_BATCH_RETRIES
          /\ \E f \in FilesOf(k) : cache[f] # 0 /\ cache[f] = scan.cache0[f]
    /\ \A k \in DOMAIN batches : ~batches[k].upserted


\* C10: in every attempt of every batch that has modified files, embedding and
\* upsert are called only after the deletion of those files' points has
\* succeeded in that attempt, and an attempt whose deletion fails goes to its
\* catch block without embedding or upserting; and the store never holds points
\* of two contents of one file.
C10_DeleteBeforeUpsert ==
    /\ [](\A k \in DOMAIN batches :
            (uniqueFilePaths(batches[k]) # {}
                /\ batches[k].pc \in {"embed", "upsert", "updateHash", "done"})
            => batches[k].deleted)
    /\ [][\A k \in DOMAIN batches :
            (batches[k].pc = "delete" /\ k \in DOMAIN batches' /\ ~batches'[k].deleted
                /\ batches'[k] # batches[k])
            => (batches'[k].pc \in {"backoff", "failed"} /\ store' = store)]_vars
    /\ [](\A p, q \in store : p.filePath = q.filePath => p.id[2][2] = q.id[2][2])

\* a batch with a modified file has upserted the new points in its second
\* attempt, after deleting the old ones again
C10_Witness ==
    \E k \in DOMAIN batches :
        /\ batches[k].pc = "updateHash"
        /\ batches[k].attempts = 2
        /\ batches[k].deleted
        /\ uniqueFilePaths(batches[k]) # {}

\* the scan has made its last reconciliation call and is about to return
ScanEnding == scan.pc = "reconcile" /\ scan.todo = {}

\* the paths the cache held when the scan started that are not in its listing
Vanished == {f \in Files : scan.cache0[f] # 0 /\ disk[f] = 0}

\* C11: at the end of a scan every path that was cached but is not listed has
\* had exactly one deletePointsByFilePath call; its cache entry is removed if
\* and only if that call succeeded, a failed call has been reported to
\* onError, and the scan goes on to return its statistics.
C11_Reconciliation ==
    /\ [](ScanEnding =>
            \A f \in Vanished :
                /\ scan.deleteCalls[f] = 1
                /\ cache[f] = 0 <=> f \notin scan.deleteFailed
                /\ cache[f] # 0 => cache[f] = scan.cache0[f])
    /\ [][(scan.pc = "reconcile" /\ scan'.deleteFailed \ scan.deleteFailed # {})
            => scan'.pc = "reconcile"]_vars
    /\ [][ScanEnding => (scan'.pc = "idle" /\ lastScan'.returned)]_vars

\* a scan ends in which one vanished path's points were deleted and another's
\* deletion failed
C11_Witness ==
    /\ ScanEnding
    /\ \E f, g \in Vanished : cache[f] = 0 /\ g \in scan.deleteFailed /\ cache[g] # 0

\* the files of the listing
Listed == {f \in Files : disk[f] # 0}

\* C12: a scan that follows a scan without any failure, over the same
\* unedited files (all of them readable and within the size limit again),
\* calls parseFile for no file, starts no batch (so it calls neither
\* createEmbeddings nor upsertPoints nor a deletion), makes no reconciliation
\* deletion, counts processed = 0, skipped = N and totalBlocksIndexed = 0, and
\* leaves the cache and the store as they were.
C12_Idempotence ==
    (ScanEnding /\ scan.prevClean /\ ~scan.envFault)
    => /\ scan.parsed = {}
       /\ batches = <<>>
       /\ \A f \in Files : scan.deleteCalls[f] = 0
       /\ scan.processedCount = 0
       /\ scan.skippedCount = Cardinality(Listed)
       /\ scan.totalBlocksIndexed = 0
       /\ cache = scan.cache0
       /\ store = scan.store0

\* the second scan of two files whose four blocks the first scan indexed
C12_Witness ==
    /\ ScanEnding
    /\ scan.prevClean
    /\ ~scan.envFault
    /\ Cardinality(Listed) = 2
    /\ Cardinality(store) >= 3

\* the batches that hold a block or a file info of f
BatchesOf(f) ==
    {k \in DOMAIN batches :
        \/ f \in FilesOf(k)
        \/ \E i \in DOMAIN batches[k].infos : batches[k].infos[i].filePath = f}

\* C20: in every scan no file has blocks, or a file info, in two batches.
C20_OneBatchPerFile == \A f \in Files : Cardinality(BatchesOf(f)) <= 1


\* A run that was accepted while no other call was in flight and that no
\* call or event has disturbed since.
Undisturbed(r) == run[r].pc # "idle" /\ run[r].n0 = ncalls

CatchPcs == {"catchClearCollection", "catchClearCacheFile", "catchReturn"}

CompletedAlone(from) ==
    /\ lastOp.call = "startIndexing"
    /\ lastOp.outcome = "completed"
    /\ lastOp.alone
    /\ lastOp.from = from

\* the status a completed run leaves: Indexed when the watcher's queue is
\* empty, Indexing with the watching message otherwise
CompletedStatus ==
    IF lastOp.queueSize = 0
    THEN /\ status.systemStatus = "Indexed"
         /\ status.message = Plain("Index is up-to-date.")
    ELSE /\ status.systemStatus = "Indexing"
         /\ status.message = Plain("Initial scan complete. Watching for file changes...")

\* C13: a start accepted from Standby whose scan and watcher initialization
\* succeed, and which nothing disturbs, keeps the status Indexing from its
\* acceptance until it returns, and returns with the status Indexed when the
\* watcher's queue is empty, Indexing with the watching message otherwise.
C13_SuccessPath ==
    /\ \A r \in Runs :
          (Undisturbed(r) /\ run[r].from = "Standby" /\ run[r].pc \notin CatchPcs)
              => status.systemStatus = "Indexing"
    /\ CompletedAlone("Standby") => CompletedStatus

C13_Witness ==
    /\ CompletedAlone("Standby")
    /\ lastOp.queueSize = 0
    /\ lastOp.blocksIndexed > 0
    /\ status.systemStatus = "Indexed"

Restartable ==
    /\ status.systemStatus = "Error"
    /\ isFeatureConfigured
    /\ InFlight = {}
    /\ clr.pc = "idle"

\* C14: with the status Error, the service configured and no run or clear in
\* flight, startIndexing is never rejected; and a run accepted from Error that
\* nothing disturbs and that completes leaves the status of a completed run.
C14_RestartFromError ==
    /\ [][Restartable => ~StartRejected]_vars
    /\ [](CompletedAlone("Error") => CompletedStatus)
    /\ [](\A r \in Runs :
            (Undisturbed(r) /\ run[r].from = "Error" /\ run[r].pc \notin CatchPcs)
                => status.systemStatus = "Indexing")

C14_Witness ==
    /\ CompletedAlone("Error")
    /\ lastOp.queueSize = 0
    /\ status.systemStatus = "Indexed"

\* C19: once the cancellation token of a run has been cancelled while its
\* scan is in progress, the scan processes no further file and does not
\* return its statistics to startIndexing.
C19_ScanObservesCancellation ==
    [][\A r \in Runs :
          (run[r].token # "no" /\ run[r].pc \in ScanPcs)
              => /\ run'[r].processedFiles = run[r].processedFiles
                 /\ run'[r].pc # "watcherInit"]_vars


(* ------------------------ claims: the state manager -------------------- *)

SetCalled == smLast.call = "setSystemState"

\* the state and the message the last setSystemState call was given
NewState == smLast.args[1]

Message == smLast.args[2]

\* C15: setSystemState(s, m) changes no field and fires no event exactly when
\* s is the current state and m is omitted or equal to the current message;
\* every other call fires exactly one event. A setSystemState call that
\* repeats the arguments of the setSystemState call before it fires nothing.
C15_NoOpSuppression ==
    /\ [](SetCalled =>
            IF /\ NewState = smLast.before.systemStatus
               /\ (Message = Undefined \/ Message = smLast.before.message)
            THEN status = smLast.before /\ smLast.fired = 0
            ELSE status # smLast.before /\ smLast.fired = 1)
    /\ [][(SetCalled /\ smLast'.call = "setSystemState" /\ smLast'.args = smLast.args)
            => (smLast'.fired = 0 /\ status' = status)]_vars

C15_Witness ==
    /\ SetCalled
    /\ smLast.before.systemStatus = "Indexing"
    /\ NewState = "Indexing"
    /\ Message = Plain("x")
    /\ smLast.before.message = Plain("x")
    /\ smLast.fired = 0

\* C16: a setSystemState call that takes effect with the state Standby,
\* Indexed or Error leaves the counters 0, the unit "blocks" and the key
\* counters 0, and the message is the supplied one or, when none was supplied,
\* "Ready.", "Index up-to-date." or "An error occurred.".
C16_ResetOnLeavingIndexing ==
    (SetCalled /\ NewState # "Indexing" /\ smLast.fired = 1) =>
        /\ status.systemStatus = NewState
        /\ status.processedItems = 0
        /\ status.totalItems = 0
        /\ status.currentItemUnit = "blocks"
        /\ status.currentApiKey = 0
        /\ status.totalApiKeys = 0
        /\ status.message =
              IF Message # Undefined THEN Message
              ELSE IF NewState = "Standby" THEN Plain("Ready.")
              ELSE IF NewState = "Indexed" THEN Plain("Index up-to-date.")
              ELSE Plain("An error occurred.")

C16_Witness ==
    /\ SetCalled
    /\ NewState = "Indexed"
    /\ Message = Undefined
    /\ smLast.before.systemStatus = "Indexing"
    /\ smLast.before.processedItems > 0
    /\ smLast.before.currentItemUnit = "files"
    /\ smLast.before.currentApiKey > 0
    /\ status.message = Plain("Index up-to-date.")

\* C17: after every reportFileQueueProgress(p, t, name) call the unit is
\* "files" and the status is Indexing; the message is "Found t file(s) to
\* process." when p = 0 < t, "Processing p / t file(s). Current: name" when
\* 0 < p < t, and the message before the call when p = t.
C17_FileQueueProgress ==
    smLast.call = "reportFileQueueProgress" =>
        LET p == smLast.args[1]
            t == smLast.args[2]
            name == IF smLast.args[3] = "" THEN "..." ELSE smLast.args[3]
        IN  /\ status.currentItemUnit = "files"
            /\ status.systemStatus = "Indexing"
            /\ (p = 0 /\ 0 < t) =>
                  status.message = Msg(IF t = 1 THEN "Found %d file to process."
                                       ELSE "Found %d files to process.", <<t>>, "")
            /\ (0 < p /\ p < t) =>
                  status.message = Msg(IF t = 1 THEN "Processing %d / %d file. Current: %s"
                                       ELSE "Processing %d / %d files. Current: %s",
                                       <<p, t>>, name)
            /\ p = t => status.message = smLast.before.message


(* ------------------------ claims: the embedder ------------------------- *)

Exhausted(c) == emb[c].pc = "threw" /\ emb[c].outcome = "exhausted"

WatcherStopped == watcher = "disposed" /\ ~subs /\ ~leaked

\* C21: whenever no run and no clear is in flight and the file watcher is
\* stopped (disposed, no live subscription), the status is not Indexing.
C21_NoStuckIndexing ==
    (InFlight = {} /\ clr.pc = "idle" /\ WatcherStopped) => status.systemStatus # "Indexing"


BatchFinished == lastOp.call = "onDidFinishBatchProcessing"

\* C26: a batch-finish event handled by the subscribed handler sets the
\* status to Error with the message "Batch processing failed: ..." when the
\* summary carries a batch error; otherwise it sets Indexed when the status
\* was Indexing, and changes no field of the status when it was anything else.
C26_BatchFinish ==
    [][lastOp'.call = "onDidFinishBatchProcessing" =>
          IF lastOp'.outcome = "batchError"
          THEN /\ status'.systemStatus = "Error"
               /\ status'.message.fmt = "Batch processing failed: %s"
          ELSE IF status.systemStatus = "Indexing"
          THEN status'.systemStatus = "Indexed"
          ELSE status' = status]_vars

C26_Witness ==
    /\ BatchFinished
    /\ lastOp.outcome = "ok"
    /\ status.systemStatus = "Indexed"
    /\ status.message = Plain("Index up-to-date. File queue processed.")


\* C22: from the return of clearIndexData() until a startIndexing call is
\* accepted, no point is added to the vector collection, no hash-cache entry
\* is written, the watcher is not started and the status does not become
\* Indexed.
C22_ClearIsFinal ==
    [][(clr.cleared /\ clr'.cleared) =>
          /\ points' \subseteq points
          /\ hashes' \subseteq hashes
          /\ watcher' = "active" => watcher = "active"
          /\ status'.systemStatus = "Indexed" => status.systemStatus = "Indexed"]_vars


\* C23: a run whose vectorStore.initialize() created a collection reaches
\* scanDirectory only through clearCacheFile, which leaves the cache empty; in
\* such a run that nothing disturbs, no file still to be processed has a
\* cache entry, so none can be skipped as unchanged; and the steps of a run
\* that created no collection, up to the call of scanDirectory, leave the
\* cache as it is.
C23_FreshCollection ==
    /\ [](\A r \in Runs :
            (Undisturbed(r) /\ run[r].collectionCreated /\ run[r].pc \in {"listFiles", "parse"})
                => (IF run[r].pc = "listFiles" THEN Files ELSE run[r].todo) \cap hashes = {})
    /\ [][\A r \in Runs :
            (run[r].pc # "listFiles" /\ run'[r].pc = "listFiles") =>
                IF run'[r].collectionCreated
                THEN run[r].pc = "clearCacheFile" /\ hashes' = {}
                ELSE run[r].pc = "initialize" /\ hashes' = hashes]_vars

C23_Witness ==
    \E r \in Runs :
        /\ Undisturbed(r)
        /\ run[r].collectionCreated
        /\ run[r].from = "Indexed"
        /\ run[r].pc = "parse"
        /\ run[r].processedFiles = 1
        /\ points = {}

\* C29 (vector alignment): every point in the store carries the embedding the
\* embedder returned for the text of the point's own block, also when a block
\* of its batch is empty or whitespace-only.
C29_VectorAlignment ==
    \A p \in store : p.vector = <<"embedding", trim(p.codeChunk)>>

\* C25 (reconciliation removes only vanished files): the reconciliation step
\* calls deletePointsByFilePath, and removes the cache entry, only for cached
\* paths that are absent from the listing; a cached file that is still listed
\* keeps its points and its cache entry, also when it was too large or could
\* not be read in this scan.
C25_OnlyVanished ==
    \A f \in Files :
        scan.pc = "reconcile" /\ disk[f] # 0 =>
            /\ scan.deleteCalls[f] = 0
            /\ f \notin scan.todo
            /\ scan.cache0[f] # 0 /\ f \notin scan.processedFiles => cache[f] = scan.cache0[f]

\* the files that have a block in a batch that failed for good
FailedFiles ==
    {f \in Files : \E k \in DOMAIN batches :
        /\ batches[k].pc = "failed"
        /\ \E i \in DOMAIN batches[k].blocks : batches[k].blocks[i].file_path = f}

\* C28 (a permanently failed file is retried): when the batches have settled,
\* a file whose batch failed after all its retries has no hash-cache entry,
\* so that the next scan parses and embeds it again, whether the file was new
\* or modified.
C28_FailedFileUncached ==
    scan.pc = "reconcile" => \A f \in FailedFiles : cache[f] = 0

\* the listed files whose parse task has settled
SettledFiles ==
    IF scan.pc = "idle" THEN {}
    ELSE {f \in Files : disk[f] # 0} \ (IF scan.pc = "parse" THEN scan.todo ELSE {})

\* the settled files that were read, and whose hash equals the cached hash
UnchangedFiles ==
    {f \in SettledFiles \cap scan.processedFiles : scan.cache0[f] = createHash(disk[f])}

\* the points of the store st that concern file f
PointsAt(st, f) == {p \in st : p.filePath = f}

\* C30 (change detection): in one scanDirectory, parseFile is called for
\* exactly the listed files that were read, are within the size limit, and
\* whose hash differs from the cached hash or that have no cache entry; a file
\* whose hash equals its cached hash is not parsed, has no block, text or file
\* info in any batch, no delete and no upsert concerns it, and it is counted
\* as skipped (the skipped files are the unchanged and the oversize ones).
C30_ChangeDetection ==
    /\ scan.parsed = (SettledFiles \cap scan.processedFiles) \ UnchangedFiles
    /\ scan.pc # "idle" => scan.skippedCount = Cardinality(UnchangedFiles) + Cardinality(scan.large)
    /\ \A f \in UnchangedFiles :
          /\ f \notin scan.parsed
          /\ \A i \in DOMAIN scan.allBlocksToProcess : scan.allBlocksToProcess[i].file_path # f
          /\ \A i \in DOMAIN scan.allFileInfosToProcess : scan.allFileInfosToProcess[i].filePath # f
          /\ \A k \in DOMAIN batches :
                /\ \A i \in DOMAIN batches[k].blocks : batches[k].blocks[i].file_path # f
                /\ \A i \in DOMAIN batches[k].infos : batches[k].infos[i].filePath # f
                /\ f \notin uniqueFilePaths(batches[k])
          /\ scan.deleteCalls[f] = 0
          /\ PointsAt(store, f) = PointsAt(scan.store0, f)
          /\ cache[f] = scan.cache0[f]

\* a scan that has settled its batches skipped an unchanged file that has
\* points, and parsed and upserted a changed one
C30_Witness ==
    /\ scan.pc = "reconcile"
    /\ \E f \in UnchangedFiles : PointsAt(store, f) # {}
    /\ \E g \in scan.parsed : scan.cache0[g] # 0 /\ \E k \in DOMAIN batches :
           /\ batches[k].pc = "done"
           /\ \E i \in DOMAIN batches[k].blocks : batches[k].blocks[i].file_path = g

\* the blocks of the batches that succeeded, each named by batch and position
DoneBlocks ==
    {kb \in (DOMAIN batches) \X (1..BATCH_SEGMENT_THRESHOLD) :
        batches[kb[1]].pc = "done" /\ kb[2] \in DOMAIN batches[kb[1]].blocks}

\* a batch makes from 1 to MAX_BATCH_RETRIES attempts; it has failed only
\* after the last of them, with onError called once, and onError is called for
\* no other batch; the failed batches add nothing to totalBlocksIndexed
C27_Bounded ==
    /\ \A k \in DOMAIN batches :
          /\ batches[k].attempts \in 1..MAX_BATCH_RETRIES
          /\ batches[k].pc = "failed" =>
                batches[k].attempts = MAX_BATCH_RETRIES /\ batches[k].onError = 1
          /\ batches[k].pc # "failed" => batches[k].onError = 0
    /\ scan.pc = "reconcile" => scan.totalBlocksIndexed = Cardinality(DoneBlocks)

\* a batch whose attempt succeeded makes no further attempt and stays succeeded
C27_StopAtSuccess ==
    \A k \in (DOMAIN batches) \cap (DOMAIN batches') :
        batches[k].pc \in {"updateHash", "done"} =>
            /\ batches'[k].attempts = batches[k].attempts
            /\ batches'[k].pc \in {"updateHash", "done"}
            /\ batches'[k].onError = 0

\* C27 (bounded batch retry and scan termination): processBatch makes at most
\* MAX_BATCH_RETRIES attempts, stops at the first successful one, and after
\* the last failed one calls onError exactly once and contributes 0 to
\* totalBlocksIndexed; every scanDirectory in flight returns its statistics,
\* whatever the files are and whichever deletions, embeddings and upserts fail.
C27_BoundedRetry ==
    /\ []C27_Bounded
    /\ [][C27_StopAtSuccess]_vars
    /\ (scan.pc # "idle") ~> lastScan.returned

\* the batches of a scan have settled: one failed for good, and another
\* succeeded at its second attempt
C27_Witness ==
    /\ scan.pc = "reconcile"
    /\ \E k \in DOMAIN batches : batches[k].pc = "failed"
    /\ \E k \in DOMAIN batches : batches[k].pc = "done" /\ batches[k].attempts = 2

\* a startIndexing call accepted from Indexed has just returned: no other call
\* or event came in meanwhile, its scan skipped every file as unchanged, so
\* that it found no block and reported no error, and the watcher initialized
UnchangedRestart ==
    /\ lastOp.call = "startIndexing"
    /\ lastOp.from = "Indexed"
    /\ lastOp.alone
    /\ lastOp.processedFiles = NumFiles
    /\ ~lastOp.changed
    /\ lastOp.cause # "fileWatcher.initialize failed"

\* C24 (restart on an unchanged workspace is harmless): startIndexing accepted
\* from Indexed, when every file is unchanged, completes, ends in Indexed when
\* the watcher's queue is empty, and clears neither the vector collection nor
\* the hash cache.
C24_HarmlessRestart ==
    UnchangedRestart =>
        /\ lastOp.outcome = "completed"
        /\ lastOp.teardown = {}
        /\ hashes = Files
        /\ lastOp.queueSize = 0 => status.systemStatus = "Indexed"

\* C36 (no redundant notification): whichever of setSystemState,
\* reportBlockIndexingProgress, reportFileQueueProgress and reportApiKeyUsage
\* is called, the call fires at most one progress event, the payload of the
\* event is the state the call leaves, and it differs from the payload of the
\* event fired before it.
C36_NoRedundantEvent ==
    [][/\ smLast'.fired <= 1
       /\ smLast'.fired = 1 =>
             /\ smLast'.payload = status'
             /\ smLast'.payload # smLast.payload]_vars

\* a call has fired an event after an earlier call had fired one
C36_Witness ==
    /\ smLast.fired = 1
    /\ smLast.call = "reportApiKeyUsage"
    /\ smLast.before # InitialStatus
    /\ smLast.before.systemStatus = "Indexing"
    /\ smLast.payload = status

\* C37 (idle status carries no progress): whenever the status is not
\* Indexing, the counters are 0, the unit is "blocks" and the key counters
\* are 0.
C37_IdleNoProgress ==
    status.systemStatus # "Indexing" =>
        /\ status.processedItems = 0
        /\ status.totalItems = 0
        /\ status.currentItemUnit = "blocks"
        /\ status.currentApiKey = 0
        /\ status.totalApiKeys = 0

\* C34 (stopWatcher): after a stopWatcher() call the watcher is disposed, the
\* orchestrator holds no subscription and _isProcessing is false; the status
\* becomes Standby with "File watcher stopped." when it was Standby or
\* Indexed, and is left as it was when it was Error or Indexing.
C34_StopWatcher ==
    [][lastOp'.call = "stopWatcher" =>
         /\ watcher' = "disposed"
         /\ ~subs'
         /\ ~isProcessing'
         /\ IF status.systemStatus \in {"Standby", "Indexed"}
            THEN /\ status'.systemStatus = "Standby"
                 /\ status'.message = Plain("File watcher stopped.")
            ELSE status' = status]_vars

\* C33 (single set of watcher subscriptions): the orchestrator never has two
\* live sets of watcher subscriptions, the set it holds and one that an
\* earlier run installed and that was never disposed; after stopWatcher() no
\* subscription is live.
C33_OneSubscriptionSet ==
    /\ ~(subs /\ leaked)
    /\ lastOp.call = "stopWatcher" => ~subs /\ ~leaked

\* C31 (scan and watcher are sequenced): the file watcher is not active
\* (initialized and not disposed) while a scanDirectory call of a run is in
\* flight, whatever status the run was accepted in.
C31_ScanThenWatcher ==
    \A r \in Runs : run[r].pc \in ScanPcs => watcher # "active"

\* C32 (key rotation under concurrency): a createEmbeddings call that ends by
\* throwing "Failed to create embeddings after trying all API keys with
\* retries" has attempted every configured key at least once, also when other
\* calls ran on the embedder at the same time.
C32_EveryKeyTried ==
    \A c \in EmbCalls : Exhausted(c) => emb[c].tried = 1..apiKeys

\* the files of the scan in flight that were parsed into zero blocks and had
\* their hash updated at once
ZeroBlockFiles ==
    {f \in scan.parsed : NBlocks(disk[f]) = 0 /\ cache[f] = createHash(disk[f])}

\* C35 (zero-block files): once the batches of a scan have settled, the
\* vector store holds no point of a file that this scan parsed into zero
\* blocks: the points of the file's previous content are gone.
C35_ZeroBlockNotStale ==
    scan.pc = "reconcile" => \A f \in ZeroBlockFiles : PointsAt(store, f) = {}

====
